---------------------------- MODULE Spec2Model ----------------------------
(***************************************************************************)
(* Hundir la Flota (src/main.py): the game state machine behind the        *)
(* endpoints /iniciar-juego, /colocar-barcos, /disparar and /turno-ia, and *)
(* the targeting of the computer's shots (obtener_disparo_ia and           *)
(* generar_coordenadas_aleatorias).                                        *)
(*                                                                         *)
(* A cell is <<x, y>>, as in tablero[x][y].  Cell symbols are the source's *)
(* strings: "~" empty, "O" ship, "X" hit, "F" miss, "H" sunk.              *)
(* Python's None is the record None; an absent name is the string "None".  *)
(***************************************************************************)
EXTENDS Integers, Sequences, FiniteSets, TLC

VARIABLES
    juego_actual,           \* the global dict of the game, or None
    historial_disparos_ia,  \* the global list of the computer's shot records
    respuesta,              \* the last request and what it answered
    en_vuelo                \* the turno_ia calls suspended on the oracle, oldest first

vars == <<juego_actual, historial_disparos_ia, respuesta, en_vuelo>>

None == [none |-> TRUE]

\* Bounds of the exploration.
\* The computer's shots of a game before which the oracle still names its water cell.
MaxHistorialSonda == 3

\* The computer's shots per game where the fallback's choices are followed.
MaxDisparosHeuristica == 2

\* The computer's shots per game where it sweeps the whole grid.
MaxDisparosBarrido == 99

\* The computer's shots per game where the oracle names water cells only.
MaxDisparosAgua == 62

\* The turno_ia calls suspended on the oracle at the same time.
MaxEnVuelo == 2

\* The computer's shots, resolved or suspended, per game with overlapping requests.
MaxDisparosSolapados == 3

tamano == 10

Rango == 0 .. (tamano - 1)

Celdas == Rango \X Rango

\* Row-major position of a cell: the order of "for i in range(10): for j in range(10)".
Orden(c) == c[1] * tamano + c[2]

\* The first cell of S in row-major order (S is not empty).
PrimeraCelda(S) == CHOOSE c \in S : \A d \in S : Orden(c) <= Orden(d)

barcos_config ==
    << [nombre |-> "Portaaviones", longitud |-> 5],
       [nombre |-> "Acorazado",    longitud |-> 4],
       [nombre |-> "Crucero",      longitud |-> 3],
       [nombre |-> "Submarino",    longitud |-> 3],
       [nombre |-> "Destructor",   longitud |-> 2] >>

Nombres == { barcos_config[i].nombre : i \in DOMAIN barcos_config }

crear_tablero == [c \in Celdas |-> "~"]

\* The set of the elements of a sequence.
Elementos(s) == { s[i] : i \in DOMAIN s }

NuevoBarco(nombre, posiciones) ==
    [nombre |-> nombre, posiciones |-> posiciones, impactos |-> 0, hundido |-> FALSE]

\* tablero with every cell of the sequence posiciones set to simbolo.
Marcar(tablero, posiciones, simbolo) ==
    [c \in Celdas |-> IF c \in Elementos(posiciones) THEN simbolo ELSE tablero[c]]

(***************************************************************************)
(* Shot results.  The source builds message strings and later tests them   *)
(* with "in"; a result here is the message's kind plus the ship name it    *)
(* embeds, and the substring tests are the Contiene operators below.       *)
(***************************************************************************)
ResFuera    == [tipo |-> "FUERA",    nombre |-> "None"]  \* "Coordenadas fuera del tablero"
ResTocado   == [tipo |-> "TOCADO",   nombre |-> "None"]  \* "¡TOCADO! Has acertado en un barco"
ResRepetido == [tipo |-> "REPETIDO", nombre |-> "None"]  \* "Ya has disparado aquí"
ResAgua     == [tipo |-> "AGUA",     nombre |-> "None"]  \* "AGUA. Has fallado"
ResHundido(nombre) == [tipo |-> "HUNDIDO", nombre |-> nombre]  \* "¡HUNDIDO! Has hundido el <nombre>"

\* "TOCADO" in resultado / "HUNDIDO" in resultado: no catalog name holds either word.
ContieneTocado(resultado) == resultado.tipo = "TOCADO"

ContieneHundido(resultado) == resultado.tipo = "HUNDIDO"

\* "IA dispara" in resultado: none of the five messages holds these words.
ContieneIADispara(resultado) == FALSE

\* Index of the first ship of barcos that occupies c, 0 when there is none.
PrimerBarcoEn(barcos, c) ==
    IF \E i \in DOMAIN barcos : c \in Elementos(barcos[i].posiciones)
    THEN CHOOSE i \in DOMAIN barcos :
            /\ c \in Elementos(barcos[i].posiciones)
            /\ \A k \in DOMAIN barcos : c \in Elementos(barcos[k].posiciones) => i <= k
    ELSE 0

(***************************************************************************)
(* procesar_disparo(tablero, barcos, x, y): the new owner grid, the new    *)
(* fleet and the returned triple.  retorna is FALSE on the path that falls *)
(* off the end of the function (an "O" cell that no ship occupies): the    *)
(* function then returns None and the caller's unpacking raises.           *)
(***************************************************************************)
\* procesar_disparo with the sinking shot reported as no hit: the second value
\* of the return at line 141 False.
ProcesarDisparoHundidoSinAcierto(tablero, barcos, x, y) ==
    LET c == <<x, y>>
        sin == [tablero |-> tablero, barcos |-> barcos, retorna |-> TRUE,
                resultado |-> ResFuera, acierto |-> FALSE, barco_hundido |-> "None"]
    IN  IF ~(x \in Rango /\ y \in Rango) THEN sin
        ELSE IF tablero[c] = "O" THEN
            LET i == PrimerBarcoEn(barcos, c)
                t == [tablero EXCEPT ![c] = "X"]
            IN  IF i = 0 THEN [sin EXCEPT !.tablero = t, !.retorna = FALSE]
                ELSE LET n == barcos[i].impactos + 1
                         h == (n = Len(barcos[i].posiciones))
                     IN  [tablero |-> t,
                          barcos |-> [barcos EXCEPT ![i].impactos = n,
                                                    ![i].hundido = (h \/ @)],
                          retorna |-> TRUE,
                          resultado |-> IF h THEN ResHundido(barcos[i].nombre) ELSE ResTocado,
                          acierto |-> ~h,
                          barco_hundido |-> IF h THEN barcos[i].nombre ELSE "None"]
        ELSE IF tablero[c] \in {"X", "F"} THEN [sin EXCEPT !.resultado = ResRepetido]
        ELSE [sin EXCEPT !.tablero = [tablero EXCEPT ![c] = "F"], !.resultado = ResAgua]

\* procesar_disparo with a miss reported as a hit: the second value of the
\* return at line 150 True.
ProcesarDisparoAguaAcierta(tablero, barcos, x, y) ==
    LET c == <<x, y>>
        sin == [tablero |-> tablero, barcos |-> barcos, retorna |-> TRUE,
                resultado |-> ResFuera, acierto |-> FALSE, barco_hundido |-> "None"]
    IN  IF ~(x \in Rango /\ y \in Rango) THEN sin
        ELSE IF tablero[c] = "O" THEN
            LET i == PrimerBarcoEn(barcos, c)
                t == [tablero EXCEPT ![c] = "X"]
            IN  IF i = 0 THEN [sin EXCEPT !.tablero = t, !.retorna = FALSE]
                ELSE LET n == barcos[i].impactos + 1
                         h == (n = Len(barcos[i].posiciones))
                     IN  [tablero |-> t,
                          barcos |-> [barcos EXCEPT ![i].impactos = n,
                                                    ![i].hundido = (h \/ @)],
                          retorna |-> TRUE,
                          resultado |-> IF h THEN ResHundido(barcos[i].nombre) ELSE ResTocado,
                          acierto |-> TRUE,
                          barco_hundido |-> IF h THEN barcos[i].nombre ELSE "None"]
        ELSE IF tablero[c] \in {"X", "F"} THEN [sin EXCEPT !.resultado = ResRepetido]
        ELSE [sin EXCEPT !.tablero = [tablero EXCEPT ![c] = "F"], !.resultado = ResAgua,
                         !.acierto = TRUE]

\* procesar_disparo that takes the hit branch at a cell already hit as well.
ProcesarDisparoCuentaRepetidos(tablero, barcos, x, y) ==
    LET c == <<x, y>>
        sin == [tablero |-> tablero, barcos |-> barcos, retorna |-> TRUE,
                resultado |-> ResFuera, acierto |-> FALSE, barco_hundido |-> "None"]
    IN  IF ~(x \in Rango /\ y \in Rango) THEN sin
        ELSE IF tablero[c] \in {"O", "X"} THEN
            LET i == PrimerBarcoEn(barcos, c)
                t == [tablero EXCEPT ![c] = "X"]
            IN  IF i = 0 THEN [sin EXCEPT !.tablero = t, !.retorna = FALSE]
                ELSE LET n == barcos[i].impactos + 1
                         h == (n = Len(barcos[i].posiciones))
                     IN  [tablero |-> t,
                          barcos |-> [barcos EXCEPT ![i].impactos = n,
                                                    ![i].hundido = (h \/ @)],
                          retorna |-> TRUE,
                          resultado |-> IF h THEN ResHundido(barcos[i].nombre) ELSE ResTocado,
                          acierto |-> TRUE,
                          barco_hundido |-> IF h THEN barcos[i].nombre ELSE "None"]
        ELSE IF tablero[c] \in {"X", "F"} THEN [sin EXCEPT !.resultado = ResRepetido]
        ELSE [sin EXCEPT !.tablero = [tablero EXCEPT ![c] = "F"], !.resultado = ResAgua]

ProcesarDisparo(tablero, barcos, x, y) ==
    LET c == <<x, y>>
        sin == [tablero |-> tablero, barcos |-> barcos, retorna |-> TRUE,
                resultado |-> ResFuera, acierto |-> FALSE, barco_hundido |-> "None"]
    IN  IF ~(x \in Rango /\ y \in Rango) THEN sin
        ELSE IF tablero[c] = "O" THEN
            LET i == PrimerBarcoEn(barcos, c)
                t == [tablero EXCEPT ![c] = "X"]
            IN  IF i = 0 THEN [sin EXCEPT !.tablero = t, !.retorna = FALSE]
                ELSE LET n == barcos[i].impactos + 1
                         h == (n = Len(barcos[i].posiciones))
                     IN  [tablero |-> t,
                          barcos |-> [barcos EXCEPT ![i].impactos = n,
                                                    ![i].hundido = (h \/ @)],
                          retorna |-> TRUE,
                          resultado |-> IF h THEN ResHundido(barcos[i].nombre) ELSE ResTocado,
                          acierto |-> TRUE,
                          barco_hundido |-> IF h THEN barcos[i].nombre ELSE "None"]
        ELSE IF tablero[c] \in {"X", "F"} THEN [sin EXCEPT !.resultado = ResRepetido]
        ELSE [sin EXCEPT !.tablero = [tablero EXCEPT ![c] = "F"], !.resultado = ResAgua]

\* todos_barcos_hundidos with any() in the place of all().
algun_barco_hundido(barcos) == \E i \in DOMAIN barcos : barcos[i].hundido

todos_barcos_hundidos(barcos) == \A i \in DOMAIN barcos : barcos[i].hundido

(***************************************************************************)
(* Python list indexing: lista[i] reaches i for 0 <= i < 10 and counts     *)
(* from the end for -10 <= i < 0; any other index raises IndexError.       *)
(***************************************************************************)
IndiceValido(i) == i >= -tamano /\ i < tamano

Indice(i) == IF i < 0 THEN i + tamano ELSE i

\* registrar_disparo that writes "X" only together with the marks of a sunk
\* ship: a hit that sinks nothing is left as a miss.
RegistrarDisparoSinTocado(tablero_disparos, x, y, resultado, barco_hundido, juego) ==
    IF ~(IndiceValido(x) /\ IndiceValido(y))
    THEN [ok |-> FALSE, tablero |-> tablero_disparos]
    ELSE [ok |-> TRUE,
          tablero |-> [tablero_disparos EXCEPT ![<<Indice(x), Indice(y)>>] =
                         IF barco_hundido # "None" THEN "H" ELSE "F"]]

(***************************************************************************)
(* registrar_disparo(tablero_disparos, x, y, resultado, barco_hundido),    *)
(* with juego the value of the global juego_actual it reads.  ok is FALSE  *)
(* when an index raises IndexError, before anything is written.            *)
(***************************************************************************)
RegistrarDisparo(tablero_disparos, x, y, resultado, barco_hundido, juego) ==
    IF ~(IndiceValido(x) /\ IndiceValido(y))
    THEN [ok |-> FALSE, tablero |-> tablero_disparos]
    ELSE
      LET c == <<Indice(x), Indice(y)>> IN
      IF ContieneTocado(resultado) \/ ContieneHundido(resultado) THEN
        IF barco_hundido # "None" THEN
          LET t == [tablero_disparos EXCEPT ![c] = "H"]
              barcos_objetivo ==
                  IF juego = None THEN << >>
                  ELSE IF ContieneIADispara(resultado)
                       THEN juego.tablero_jugador.barcos
                       ELSE juego.tablero_ia.barcos
              hundidas == UNION { Elementos(barcos_objetivo[i].posiciones) :
                                    i \in { k \in DOMAIN barcos_objetivo :
                                              /\ barcos_objetivo[k].nombre = barco_hundido
                                              /\ barcos_objetivo[k].hundido } }
          IN  [ok |-> TRUE,
               tablero |-> [d \in Celdas |-> IF d \in hundidas THEN "H" ELSE t[d]]]
        ELSE [ok |-> TRUE, tablero |-> [tablero_disparos EXCEPT ![c] = "X"]]
      ELSE [ok |-> TRUE, tablero |-> [tablero_disparos EXCEPT ![c] = "F"]]

(***************************************************************************)
(* validar_posicion_barco(tablero, posiciones)                             *)
(***************************************************************************)
Min(S) == CHOOSE a \in S : \A b \in S : a <= b

Max(S) == CHOOSE a \in S : \A b \in S : a >= b

\* The comparison of line 124 and 127 reduced to the lengths of the two lists.
EsRangoPorExtremos(coords) ==
    LET S == Elementos(coords) IN Len(coords) = Max(S) - Min(S) + 1

\* sorted(coords) == list(range(min(coords), max(coords) + 1)), coords not empty:
\* as many entries as the run has values, and every value of the run present.
EsRangoConsecutivo(coords) ==
    LET S == Elementos(coords) IN
    /\ Len(coords) = Max(S) - Min(S) + 1
    /\ \A v \in Min(S) .. Max(S) : v \in S

validar_posicion_barco(tablero, posiciones) ==
    IF ~(\A i \in DOMAIN posiciones :
            posiciones[i][1] \in Rango /\ posiciones[i][2] \in Rango) THEN FALSE
    ELSE IF ~(\A i \in DOMAIN posiciones : tablero[posiciones[i]] = "~") THEN FALSE
    ELSE IF Len(posiciones) <= 1 THEN TRUE
    ELSE
      LET es_horizontal == \A i \in DOMAIN posiciones : posiciones[i][1] = posiciones[1][1]
          es_vertical   == \A i \in DOMAIN posiciones : posiciones[i][2] = posiciones[1][2]
      IN  IF ~(es_horizontal \/ es_vertical) THEN FALSE
          ELSE IF es_horizontal
               THEN EsRangoConsecutivo([i \in DOMAIN posiciones |-> posiciones[i][2]])
               ELSE EsRangoConsecutivo([i \in DOMAIN posiciones |-> posiciones[i][1]])

(***************************************************************************)
(* colocar_barco_ia: one draw is <<orientacion, x, y>>; the loop redraws   *)
(* until the cells of the draw are all free.                               *)
(***************************************************************************)
SorteosPosibles(longitud) ==
    { <<0, x, y>> : x \in Rango, y \in 0 .. (tamano - longitud) }
      \cup { <<1, x, y>> : x \in 0 .. (tamano - longitud), y \in Rango }

PosicionesSorteo(s, longitud) ==
    IF s[1] = 0 THEN [i \in 1 .. longitud |-> <<s[2], s[3] + i - 1>>]
                ELSE [i \in 1 .. longitud |-> <<s[2] + i - 1, s[3]>>]

\* colocar_barco_ia without the test that the cells of the draw are free.
SorteoSinComprobar(tablero, s, longitud) == TRUE

SorteoLibre(tablero, s, longitud) ==
    \A c \in Elementos(PosicionesSorteo(s, longitud)) : tablero[c] = "~"

colocar_barco_ia(lado, longitud, nombre, s) ==
    [tablero |-> Marcar(lado.tablero, PosicionesSorteo(s, longitud), "O"),
     barcos  |-> Append(lado.barcos, NuevoBarco(nombre, PosicionesSorteo(s, longitud)))]

(***************************************************************************)
(* generar_coordenadas_aleatorias(disparos_previos), with juego the value  *)
(* of the global juego_actual it reads.  random.choice and random.randint  *)
(* may return any element: the result is the set of the possible returns.  *)
(***************************************************************************)
EnCentro(c) == 2 <= c[1] /\ c[1] <= 7 /\ 2 <= c[2] /\ c[2] <= 7

Vecinas(c) == { <<c[1], c[2] + 1>>, <<c[1] + 1, c[2]>>, <<c[1], c[2] - 1>>, <<c[1] - 1, c[2]>> }

ImpactosVistos(juego) ==
    IF juego # None
    THEN { c \in Celdas : juego.tablero_ia.tablero_disparos[c] = "X" }
    ELSE {}

candidatos_adyacentes(disparos_previos, juego) ==
    { n \in UNION { Vecinas(c) : c \in ImpactosVistos(juego) } :
        n[1] \in Rango /\ n[2] \in Rango /\ n \notin disparos_previos }

\* The smallest length among the catalog ships not yet sunk, started at 2.
tamano_minimo(juego) ==
    LET barcos_hundidos ==
            IF juego # None /\ Len(juego.tablero_jugador.barcos) > 0
            THEN { juego.tablero_jugador.barcos[i].nombre :
                     i \in { k \in DOMAIN juego.tablero_jugador.barcos :
                               juego.tablero_jugador.barcos[k].hundido } }
            ELSE {}
    IN  Min({2} \cup { barcos_config[i].longitud :
                         i \in { k \in DOMAIN barcos_config :
                                   /\ barcos_config[k].nombre \notin barcos_hundidos
                                   /\ barcos_config[k].longitud < 2 } })

patron_paridad(coordenadas_disponibles) ==
    { c \in coordenadas_disponibles : (c[1] + c[2]) % 2 = 0 }

patron_centro(coordenadas_disponibles) ==
    { c \in patron_paridad(coordenadas_disponibles) : EnCentro(c) }

\* The return statement generar_coordenadas_aleatorias reaches.
CaminoHeuristica(disparos_previos, juego) ==
    LET coordenadas_disponibles == Celdas \ disparos_previos IN
    IF coordenadas_disponibles = {} THEN "agotado"
    ELSE IF candidatos_adyacentes(disparos_previos, juego) # {} THEN "adyacente"
    ELSE IF /\ Cardinality(coordenadas_disponibles) > 40
            /\ tamano_minimo(juego) >= 2
            /\ patron_paridad(coordenadas_disponibles) # {}
         THEN IF /\ patron_centro(coordenadas_disponibles) # {}
                 /\ 4 * Cardinality(patron_centro(coordenadas_disponibles))
                      > Cardinality(patron_paridad(coordenadas_disponibles))
              THEN "paridad_centro"
              ELSE "paridad"
    ELSE IF /\ Cardinality(disparos_previos) < 20
            /\ { c \in coordenadas_disponibles : EnCentro(c) } # {}
         THEN "centro"
    ELSE "aleatorio"

generar_coordenadas_aleatorias(disparos_previos, juego) ==
    LET coordenadas_disponibles == Celdas \ disparos_previos
        camino == CaminoHeuristica(disparos_previos, juego)
    IN  CASE camino = "agotado"        -> Celdas
          [] camino = "adyacente"      -> candidatos_adyacentes(disparos_previos, juego)
          [] camino = "paridad_centro" -> patron_centro(coordenadas_disponibles)
          [] camino = "paridad"        -> patron_paridad(coordenadas_disponibles)
          [] camino = "centro"         -> { c \in coordenadas_disponibles : EnCentro(c) }
          [] OTHER                     -> coordenadas_disponibles

(***************************************************************************)
(* The oracle's answer, as obtener_disparo_ia reads it.  excepcion: the    *)
(* call raised.  objetos: the matches of json_pattern in the text, in      *)
(* order; parsea is FALSE for a match json.loads rejects.  alternativo:    *)
(* the match of coords_pattern (two digit strings), << >> without one.     *)
(* A value of an object is absent or null ("ausente"), a JSON string,      *)
(* list or object ("texto"), an integer, a boolean (v is 0 or 1), a finite *)
(* float (v is the number in tenths) or NaN/Infinity ("nofinito").         *)
(***************************************************************************)
Valor(clase, v) == [clase |-> clase, v |-> v]

Ausente == Valor("ausente", 0)

Objeto(x, y) == [parsea |-> TRUE, x |-> x, y |-> y]

ObjetoEntero(x, y) == Objeto(Valor("entero", x), Valor("entero", y))

ObjetoInvalido == [parsea |-> FALSE, x |-> Ausente, y |-> Ausente]

Texto(objetos, alternativo) ==
    [excepcion |-> FALSE, objetos |-> objetos, alternativo |-> alternativo]

OraculoFalla == [excepcion |-> TRUE, objetos |-> << >>, alternativo |-> << >>]

\* isinstance(v, (int, float)): bool is a subclass of int.
EsNumerico(val) == val.clase \in {"entero", "booleano", "real", "nofinito"}

\* int(v): a float is truncated toward zero.
AEntero(val) ==
    IF val.clase = "real"
    THEN IF val.v >= 0 THEN val.v \div 10 ELSE -((-val.v) \div 10)
    ELSE val.v

disparos_previos(juego) ==
    { c \in Celdas : juego.tablero_ia.tablero_disparos[c] \in {"X", "F", "H"} }

\* The loop over json_matches from the i-th match on: "acepta" with the
\* returned cell, "excepcion" when int() raises, "ninguno" when the loop ends.
RECURSIVE RecorrerObjetos(_, _, _)
RecorrerObjetos(objetos, i, previos) ==
    IF i > Len(objetos) THEN [tipo |-> "ninguno", celda |-> << >>]
    ELSE
      LET o == objetos[i]
          sigue == RecorrerObjetos(objetos, i + 1, previos)
      IN  IF ~o.parsea THEN sigue
          ELSE IF o.x.clase = "ausente" \/ o.y.clase = "ausente" THEN sigue
          ELSE IF ~EsNumerico(o.x) \/ ~EsNumerico(o.y) THEN sigue
          ELSE IF o.x.clase = "nofinito" \/ o.y.clase = "nofinito"
               THEN [tipo |-> "excepcion", celda |-> << >>]
          ELSE LET c == <<AEntero(o.x), AEntero(o.y)>> IN
               IF ~(c[1] \in Rango /\ c[2] \in Rango) THEN sigue
               ELSE IF c \in previos THEN sigue
               ELSE [tipo |-> "acepta", celda |-> c]

(***************************************************************************)
(* obtener_disparo_ia(game_state) for one answer of the oracle: the set of *)
(* the possible returns, each with the way it was chosen.  Every failure   *)
(* ends in generar_coordenadas_aleatorias: after the loop and the second   *)
(* pattern at line 452, after an exception at line 466.                    *)
(***************************************************************************)
PorHeuristica(previos, juego) ==
    { [celda |-> c, via |-> "heuristica"] : c \in generar_coordenadas_aleatorias(previos, juego) }

\* obtener_disparo_ia without the except clause of line 453: an exception of
\* the call or of int() leaves the function, and no cell is returned.
obtener_disparo_ia_sin_except(game_state, juego, oraculo) ==
    LET previos == disparos_previos(game_state) IN
    IF oraculo.excepcion THEN {}
    ELSE
      LET bucle == RecorrerObjetos(oraculo.objetos, 1, previos) IN
      IF bucle.tipo = "acepta" THEN { [celda |-> bucle.celda, via |-> "oraculo"] }
      ELSE IF bucle.tipo = "excepcion" THEN {}
      ELSE IF /\ oraculo.alternativo # << >>
              /\ oraculo.alternativo[1] \in Rango /\ oraculo.alternativo[2] \in Rango
              /\ oraculo.alternativo \notin previos
           THEN { [celda |-> oraculo.alternativo, via |-> "oraculo"] }
      ELSE PorHeuristica(previos, juego)

obtener_disparo_ia(game_state, juego, oraculo) ==
    LET previos == disparos_previos(game_state) IN
    IF oraculo.excepcion THEN PorHeuristica(disparos_previos(game_state), juego)
    ELSE
      LET bucle == RecorrerObjetos(oraculo.objetos, 1, previos) IN
      IF bucle.tipo = "acepta" THEN { [celda |-> bucle.celda, via |-> "oraculo"] }
      ELSE IF bucle.tipo = "excepcion" THEN PorHeuristica(disparos_previos(game_state), juego)
      ELSE IF /\ oraculo.alternativo # << >>
              /\ oraculo.alternativo[1] \in Rango /\ oraculo.alternativo[2] \in Rango
              /\ oraculo.alternativo \notin previos
           THEN { [celda |-> oraculo.alternativo, via |-> "oraculo"] }
      ELSE PorHeuristica(previos, juego)

(***************************************************************************)
(* Requests and answers.  Each handler is an operator from the globals it  *)
(* reads to the globals it leaves and the answer it gives: the HTTP status *)
(* (200, 400 for HTTPException, 500 for an exception that leaves the       *)
(* handler), the error's detail, and for a resolved shot its cell, its     *)
(* result and how the cell was chosen.                                     *)
(***************************************************************************)
ResNinguno == [tipo |-> "NINGUNO", nombre |-> "None"]

Resp(codigo, detalle) ==
    [codigo |-> codigo, detalle |-> detalle,
     celda |-> << >>, resultado |-> ResNinguno, via |-> "None"]

RespDisparo(codigo, celda, resultado, via) ==
    [codigo |-> codigo, detalle |-> "",
     celda |-> celda, resultado |-> resultado, via |-> via]

Mensaje(texto, celda, resultado) == [texto |-> texto, celda |-> celda, resultado |-> resultado]

Salida(juego, historial, r) ==
    [juego |-> juego, historial |-> historial, respuesta |-> r]

(***************************************************************************)
(* POST /iniciar-juego.  The draws of colocar_barco_ia are explored over   *)
(* SorteosExplorados, one set of draws per catalog ship.                   *)
(***************************************************************************)
SorteosExplorados ==
    << {<<0, 2, 0>>},               \* Portaaviones (2,0)..(2,4)
       {<<0, 3, 0>>, <<1, 0, 2>>},  \* Acorazado (3,0)..(3,3); (0,2)..(3,2) collides and is redrawn
       {<<0, 4, 0>>},               \* Crucero (4,0)..(4,2)
       {<<0, 5, 0>>},               \* Submarino (5,0)..(5,2)
       {<<0, 0, 8>>} >>             \* Destructor (0,8),(0,9)

RECURSIVE FlotasIA(_, _)
FlotasIA(i, lado) ==
    IF i > Len(barcos_config) THEN {lado}
    ELSE UNION { FlotasIA(i + 1, colocar_barco_ia(lado, barcos_config[i].longitud,
                                                  barcos_config[i].nombre, s)) :
                   s \in { d \in SorteosExplorados[i] \cap SorteosPosibles(barcos_config[i].longitud) :
                             SorteoLibre(lado.tablero, d, barcos_config[i].longitud) } }

JuegoNuevo(lado_ia) ==
    [tablero_jugador |-> [tablero |-> crear_tablero,
                          tablero_disparos |-> crear_tablero,
                          barcos |-> << >>],
     tablero_ia |-> [tablero |-> lado_ia.tablero,
                     tablero_disparos |-> crear_tablero,
                     barcos |-> lado_ia.barcos],
     turno_jugador |-> TRUE,
     mensaje |-> Mensaje("Coloca tus barcos en el tablero", << >>, ResNinguno),
     fase |-> "colocacion",
     game_over |-> FALSE,
     ganador |-> "None"]

\* iniciar_juego without "historial_disparos_ia = []".
iniciar_juego_sin_reset ==
    { Salida(JuegoNuevo(lado_ia), historial_disparos_ia, Resp(200, "")) :
        lado_ia \in FlotasIA(1, [tablero |-> crear_tablero, barcos |-> << >>]) }

\* The possible outcomes, one per fleet the draws can place.
iniciar_juego ==
    { Salida(JuegoNuevo(lado_ia), << >>, Resp(200, "")) :
        lado_ia \in FlotasIA(1, [tablero |-> crear_tablero, barcos |-> << >>]) }

(***************************************************************************)
(* POST /colocar-barcos.  colocacion is the submitted list of ships, each  *)
(* [nombre, posiciones].                                                   *)
(***************************************************************************)
Cuenta(lista, v) == Cardinality({ i \in DOMAIN lista : lista[i] = v })

\* sorted(a) == sorted(b) for two lists of names.
MismaListaOrdenada(a, b) ==
    /\ Len(a) = Len(b)
    /\ \A v \in Elementos(a) \cup Elementos(b) : Cuenta(a, v) = Cuenta(b, v)

LongitudConfig(nombre) ==
    LET i == CHOOSE k \in DOMAIN barcos_config : barcos_config[k].nombre = nombre
    IN  barcos_config[i].longitud

\* The loop "for barco in colocacion.barcos" from the i-th ship on, with the
\* scratch grid and the ships accepted so far.
RECURSIVE ValidarBarcos(_, _, _, _)
ValidarBarcos(colocacion, i, tablero, barcos) ==
    IF i > Len(colocacion)
    THEN [ok |-> TRUE, detalle |-> "", tablero |-> tablero, barcos |-> barcos]
    ELSE
      LET barco == colocacion[i] IN
      IF barco.nombre \notin Nombres
      THEN [ok |-> FALSE, detalle |-> "Barco desconocido", tablero |-> tablero, barcos |-> barcos]
      ELSE IF Len(barco.posiciones) # LongitudConfig(barco.nombre)
      THEN [ok |-> FALSE, detalle |-> "debe tener exactamente N casillas",
            tablero |-> tablero, barcos |-> barcos]
      ELSE IF ~validar_posicion_barco(tablero, barco.posiciones)
      THEN [ok |-> FALSE, detalle |-> "Posicion invalida", tablero |-> tablero, barcos |-> barcos]
      ELSE ValidarBarcos(colocacion, i + 1,
                         Marcar(tablero, barco.posiciones, "O"),
                         Append(barcos, NuevoBarco(barco.nombre, barco.posiciones)))

\* colocar_barcos validating on the game's own grid and fleet: the ships
\* validated before a rejection stay written.
colocar_barcos_escribe_parcial(juego, historial, colocacion) ==
    IF juego = None
    THEN Salida(juego, historial, Resp(400, "No hay juego en curso"))
    ELSE IF juego.fase # "colocacion"
    THEN Salida(juego, historial, Resp(400, "Ya no estas en la fase de colocacion"))
    ELSE IF ~MismaListaOrdenada([i \in DOMAIN colocacion |-> colocacion[i].nombre],
                                [i \in DOMAIN barcos_config |-> barcos_config[i].nombre])
    THEN Salida(juego, historial, Resp(400, "Debes colocar todos los barcos requeridos"))
    ELSE
      LET v == ValidarBarcos(colocacion, 1, crear_tablero, << >>)
          escrito == [juego EXCEPT !.tablero_jugador.tablero = v.tablero,
                                   !.tablero_jugador.barcos = v.barcos]
      IN  IF ~v.ok THEN Salida(escrito, historial, Resp(400, v.detalle))
          ELSE Salida([escrito EXCEPT
                         !.fase = "juego",
                         !.mensaje = Mensaje("Barcos colocados! Es tu turno para disparar.",
                                             << >>, ResNinguno)],
                      historial, Resp(200, ""))

\* colocar_barcos without the phase check of lines 599-600.
colocar_barcos_sin_fase(juego, historial, colocacion) ==
    IF juego = None
    THEN Salida(juego, historial, Resp(400, "No hay juego en curso"))
    ELSE IF ~MismaListaOrdenada([i \in DOMAIN colocacion |-> colocacion[i].nombre],
                                [i \in DOMAIN barcos_config |-> barcos_config[i].nombre])
    THEN Salida(juego, historial, Resp(400, "Debes colocar todos los barcos requeridos"))
    ELSE
      LET v == ValidarBarcos(colocacion, 1, crear_tablero, << >>) IN
      IF ~v.ok THEN Salida(juego, historial, Resp(400, v.detalle))
      ELSE Salida([juego EXCEPT
                     !.tablero_jugador.tablero = v.tablero,
                     !.tablero_jugador.barcos = v.barcos,
                     !.fase = "juego",
                     !.mensaje = Mensaje("Barcos colocados! Es tu turno para disparar.",
                                         << >>, ResNinguno)],
                  historial, Resp(200, ""))

colocar_barcos(juego, historial, colocacion) ==
    IF juego = None
    THEN Salida(juego, historial, Resp(400, "No hay juego en curso"))
    ELSE IF juego.fase # "colocacion"
    THEN Salida(juego, historial, Resp(400, "Ya no estas en la fase de colocacion"))
    ELSE IF ~MismaListaOrdenada([i \in DOMAIN colocacion |-> colocacion[i].nombre],
                                [i \in DOMAIN barcos_config |-> barcos_config[i].nombre])
    THEN Salida(juego, historial, Resp(400, "Debes colocar todos los barcos requeridos"))
    ELSE
      LET v == ValidarBarcos(colocacion, 1, crear_tablero, << >>) IN
      IF ~v.ok THEN Salida(juego, historial, Resp(400, v.detalle))
      ELSE Salida([juego EXCEPT
                     !.tablero_jugador.tablero = v.tablero,
                     !.tablero_jugador.barcos = v.barcos,
                     !.fase = "juego",
                     !.mensaje = Mensaje("Barcos colocados! Es tu turno para disparar.",
                                         << >>, ResNinguno)],
                  historial, Resp(200, ""))

(***************************************************************************)
(* POST /disparar, with the shot's x and y.                                *)
(***************************************************************************)
\* disparar without the game_over check of lines 658-659.
disparar_sin_fin(juego, historial, x, y) ==
    IF juego = None
    THEN Salida(juego, historial, Resp(400, "No hay juego en curso"))
    ELSE IF juego.fase = "colocacion"
    THEN Salida(juego, historial, Resp(400, "Primero debes colocar tus barcos"))
    ELSE IF ~juego.turno_jugador
    THEN Salida(juego, historial, Resp(400, "No es tu turno"))
    ELSE
      LET p == ProcesarDisparo(juego.tablero_ia.tablero, juego.tablero_ia.barcos, x, y)
          j1 == [juego EXCEPT !.tablero_ia.tablero = p.tablero,
                              !.tablero_ia.barcos = p.barcos]
          reg == RegistrarDisparo(j1.tablero_jugador.tablero_disparos, x, y,
                                  p.resultado, p.barco_hundido, j1)
          j2 == [j1 EXCEPT !.tablero_jugador.tablero_disparos = reg.tablero,
                           !.mensaje = Mensaje("Tu disparo", << >>, p.resultado)]
      IN  IF ~p.retorna \/ ~reg.ok
          THEN Salida(j1, historial, RespDisparo(500, <<x, y>>, p.resultado, "None"))
          ELSE Salida(IF todos_barcos_hundidos(j2.tablero_ia.barcos)
                      THEN [j2 EXCEPT !.mensaje = Mensaje("FELICIDADES! Has ganado la partida",
                                                          << >>, ResNinguno),
                                      !.game_over = TRUE,
                                      !.ganador = "jugador"]
                      ELSE IF ~p.acierto THEN [j2 EXCEPT !.turno_jugador = FALSE]
                      ELSE j2,
                      historial, RespDisparo(200, <<x, y>>, p.resultado, "None"))

disparar(juego, historial, x, y) ==
    IF juego = None
    THEN Salida(juego, historial, Resp(400, "No hay juego en curso"))
    ELSE IF juego.fase = "colocacion"
    THEN Salida(juego, historial, Resp(400, "Primero debes colocar tus barcos"))
    ELSE IF juego.game_over
    THEN Salida(juego, historial, Resp(200, ""))
    ELSE IF ~juego.turno_jugador
    THEN Salida(juego, historial, Resp(400, "No es tu turno"))
    ELSE
      LET p == ProcesarDisparo(juego.tablero_ia.tablero, juego.tablero_ia.barcos, x, y)
          j1 == [juego EXCEPT !.tablero_ia.tablero = p.tablero,
                              !.tablero_ia.barcos = p.barcos]
          reg == RegistrarDisparo(j1.tablero_jugador.tablero_disparos, x, y,
                                  p.resultado, p.barco_hundido, j1)
          j2 == [j1 EXCEPT !.tablero_jugador.tablero_disparos = reg.tablero,
                           !.mensaje = Mensaje("Tu disparo", << >>, p.resultado)]
      IN  IF ~p.retorna \/ ~reg.ok
          THEN Salida(j1, historial, RespDisparo(500, <<x, y>>, p.resultado, "None"))
          ELSE Salida(IF todos_barcos_hundidos(j2.tablero_ia.barcos)
                      THEN [j2 EXCEPT !.mensaje = Mensaje("FELICIDADES! Has ganado la partida",
                                                          << >>, ResNinguno),
                                      !.game_over = TRUE,
                                      !.ganador = "jugador"]
                      ELSE IF ~p.acierto THEN [j2 EXCEPT !.turno_jugador = FALSE]
                      ELSE j2,
                      historial, RespDisparo(200, <<x, y>>, p.resultado, "None"))

(***************************************************************************)
(* GET /turno-ia, with the oracle's answer to the one call the handler     *)
(* makes.  The pacing sleep and the "fecha" of a shot record (the event    *)
(* loop's clock) are left out: nothing reads them.                         *)
(***************************************************************************)
\* "TOCADO" if "TOCADO" in resultado else "HUNDIDO" if "HUNDIDO" in resultado else "AGUA"
ResultadoHistorial(resultado) ==
    IF ContieneTocado(resultado) THEN "TOCADO"
    ELSE IF ContieneHundido(resultado) THEN "HUNDIDO"
    ELSE "AGUA"

\* Index of the first ship of barcos named nombre, 0 when there is none.
PrimerBarcoLlamado(barcos, nombre) ==
    IF \E i \in DOMAIN barcos : barcos[i].nombre = nombre
    THEN CHOOSE i \in DOMAIN barcos :
            /\ barcos[i].nombre = nombre
            /\ \A k \in DOMAIN barcos : barcos[k].nombre = nombre => i <= k
    ELSE 0

\* HistorialTras without the append of line 726.
HistorialSinAnotar(historial, barcos, x, y, resultado, barco_hundido) == historial

\* The shot record appended for the shot at <<x, y>>, and the earlier records
\* with "barco_objetivo" set on those that lie on the ship just sunk.
HistorialTras(historial, barcos, x, y, resultado, barco_hundido) ==
    LET i == IF barco_hundido = "None" THEN 0 ELSE PrimerBarcoLlamado(barcos, barco_hundido)
        disparo_actual ==
            [turno |-> Len(historial) + 1, x |-> x, y |-> y,
             resultado |-> ResultadoHistorial(resultado),
             hundio_barco |-> barco_hundido,
             posiciones_barco |-> IF i = 0 THEN << >> ELSE barcos[i].posiciones,
             barco_objetivo |-> "None"]
        previos == [k \in DOMAIN historial |->
                      IF i # 0 /\ <<historial[k].x, historial[k].y>> \in Elementos(barcos[i].posiciones)
                      THEN [historial[k] EXCEPT !.barco_objetivo = barco_hundido]
                      ELSE historial[k]]
    IN  Append(previos, disparo_actual)

\* The handler from line 703 on, for the cell obtener_disparo_ia returned.
ResolverDisparoIA(juego, historial, x, y, via) ==
    LET p == ProcesarDisparo(juego.tablero_jugador.tablero, juego.tablero_jugador.barcos, x, y)
        j1 == [juego EXCEPT !.tablero_jugador.tablero = p.tablero,
                            !.tablero_jugador.barcos = p.barcos]
        h1 == HistorialTras(historial, j1.tablero_jugador.barcos,
                            x, y, p.resultado, p.barco_hundido)
        reg == RegistrarDisparo(j1.tablero_ia.tablero_disparos, x, y,
                                p.resultado, p.barco_hundido, j1)
        j2 == [j1 EXCEPT !.tablero_ia.tablero_disparos = reg.tablero,
                         !.mensaje = Mensaje("La IA dispara a", <<x, y>>, p.resultado)]
    IN  IF ~p.retorna
        THEN Salida(j1, historial, RespDisparo(500, <<x, y>>, p.resultado, via))
        ELSE IF ~reg.ok
        THEN Salida(j1, h1, RespDisparo(500, <<x, y>>, p.resultado, via))
        ELSE Salida(IF todos_barcos_hundidos(j2.tablero_jugador.barcos)
                    THEN [j2 EXCEPT !.mensaje = Mensaje("Has perdido! La IA ha hundido todos tus barcos.",
                                                        << >>, ResNinguno),
                                    !.game_over = TRUE,
                                    !.ganador = "ia"]
                    ELSE IF ~p.acierto THEN [j2 EXCEPT !.turno_jugador = TRUE]
                    ELSE j2,
                    h1, RespDisparo(200, <<x, y>>, p.resultado, via))

\* turno_ia without the game_over check of lines 696-697.
turno_ia_sin_fin(juego, historial, oraculo) ==
    IF juego = None
    THEN { Salida(juego, historial, Resp(400, "No hay juego en curso")) }
    ELSE IF juego.fase = "colocacion"
    THEN { Salida(juego, historial, Resp(400, "El jugador aun debe colocar sus barcos")) }
    ELSE IF juego.turno_jugador
    THEN { Salida(juego, historial, Resp(400, "Es el turno del jugador")) }
    ELSE { ResolverDisparoIA(juego, historial, d.celda[1], d.celda[2], d.via) :
             d \in obtener_disparo_ia(juego, juego, oraculo) }

\* turno_ia without the turn check of lines 699-700.
turno_ia_sin_turno(juego, historial, oraculo) ==
    IF juego = None
    THEN { Salida(juego, historial, Resp(400, "No hay juego en curso")) }
    ELSE IF juego.fase = "colocacion"
    THEN { Salida(juego, historial, Resp(400, "El jugador aun debe colocar sus barcos")) }
    ELSE IF juego.game_over
    THEN { Salida(juego, historial, Resp(200, "")) }
    ELSE { ResolverDisparoIA(juego, historial, d.celda[1], d.celda[2], d.via) :
             d \in obtener_disparo_ia(juego, juego, oraculo) }

\* The possible outcomes of the request, one per cell obtener_disparo_ia may return.
turno_ia(juego, historial, oraculo) ==
    IF juego = None
    THEN { Salida(juego, historial, Resp(400, "No hay juego en curso")) }
    ELSE IF juego.fase = "colocacion"
    THEN { Salida(juego, historial, Resp(400, "El jugador aun debe colocar sus barcos")) }
    ELSE IF juego.game_over
    THEN { Salida(juego, historial, Resp(200, "")) }
    ELSE IF juego.turno_jugador
    THEN { Salida(juego, historial, Resp(400, "Es el turno del jugador")) }
    ELSE { ResolverDisparoIA(juego, historial, d.celda[1], d.celda[2], d.via) :
             d \in obtener_disparo_ia(juego, juego, oraculo) }

(***************************************************************************)
(* The state machine: one action per endpoint, applied to the globals.     *)
(* respuesta keeps the request (op, with the cell of a shot in the answer) *)
(* and the answer.                                                         *)
(***************************************************************************)
Pedido(op, r) == [op |-> op, codigo |-> r.codigo, detalle |-> r.detalle,
                  celda |-> r.celda, resultado |-> r.resultado, via |-> r.via]

(***************************************************************************)
(* A turno_ia call suspended at "await model.generate_content_async".  It  *)
(* holds disparos_previos, computed before the await, and game_state, the  *)
(* dict that was juego_actual when it was called.  vigente: that dict is   *)
(* still juego_actual; otherwise iniciar_juego has bound the global to a   *)
(* new dict and marcas are the marked cells of the old one, which nothing  *)
(* writes any more.                                                        *)
(***************************************************************************)
Suspendido(juego) ==
    [disparos_previos |-> disparos_previos(juego), vigente |-> TRUE, marcas |-> {}]

\* iniciar_juego rebinds juego_actual: the suspended calls keep the old dict.
Desligar(suspendidos, juego) ==
    [i \in DOMAIN suspendidos |->
        IF suspendidos[i].vigente
        THEN [suspendidos[i] EXCEPT !.vigente = FALSE, !.marcas = disparos_previos(juego)]
        ELSE suspendidos[i]]

Quitar(suspendidos, i) ==
    [k \in 1 .. (Len(suspendidos) - 1) |-> IF k < i THEN suspendidos[k] ELSE suspendidos[k + 1]]

\* obtener_disparo_ia from the await on, for the suspended call e: the answer is
\* validated against the disparos_previos computed before the await; the except
\* clause reads game_state again; the heuristic reads the global juego_actual.
obtener_disparo_ia_reanudado(e, juego, oraculo) ==
    LET releidos == IF e.vigente THEN disparos_previos(juego) ELSE e.marcas IN
    IF oraculo.excepcion THEN PorHeuristica(releidos, juego)
    ELSE
      LET bucle == RecorrerObjetos(oraculo.objetos, 1, e.disparos_previos) IN
      IF bucle.tipo = "acepta" THEN { [celda |-> bucle.celda, via |-> "oraculo"] }
      ELSE IF bucle.tipo = "excepcion" THEN PorHeuristica(releidos, juego)
      ELSE IF /\ oraculo.alternativo # << >>
              /\ oraculo.alternativo[1] \in Rango /\ oraculo.alternativo[2] \in Rango
              /\ oraculo.alternativo \notin e.disparos_previos
           THEN { [celda |-> oraculo.alternativo, via |-> "oraculo"] }
      ELSE PorHeuristica(e.disparos_previos, juego)

\* turno_ia up to the await of line 702: the checks of lines 689-700 answer the
\* request, or the call is suspended on the oracle.
TurnoIAEntra ==
    IF \/ juego_actual = None
       \/ juego_actual.fase = "colocacion"
       \/ juego_actual.game_over
       \/ juego_actual.turno_jugador
    THEN \E s \in turno_ia(juego_actual, historial_disparos_ia, OraculoFalla) :
            /\ respuesta' = Pedido("turno_ia", s.respuesta)
            /\ UNCHANGED <<juego_actual, historial_disparos_ia, en_vuelo>>
    ELSE /\ Len(en_vuelo) < MaxEnVuelo
         /\ Len(historial_disparos_ia) + Len(en_vuelo) < MaxDisparosSolapados
         /\ en_vuelo' = Append(en_vuelo, Suspendido(juego_actual))
         /\ respuesta' = Pedido("turno_ia_suspendido", Resp(0, ""))
         /\ UNCHANGED <<juego_actual, historial_disparos_ia>>

\* turno_ia from the await on, for the i-th suspended call and the oracle's
\* answer to it: the shot is resolved on the global juego_actual of this moment.
TurnoIASale(i, oraculo, vias) ==
    \E d \in obtener_disparo_ia_reanudado(en_vuelo[i], juego_actual, oraculo) :
        LET s == ResolverDisparoIA(juego_actual, historial_disparos_ia,
                                   d.celda[1], d.celda[2], d.via) IN
        /\ d.via \in vias
        /\ juego_actual' = s.juego
        /\ historial_disparos_ia' = s.historial
        /\ respuesta' = Pedido("turno_ia", s.respuesta)
        /\ en_vuelo' = Quitar(en_vuelo, i)

Init ==
    /\ juego_actual = None
    /\ historial_disparos_ia = << >>
    /\ respuesta = Pedido("None", Resp(200, ""))
    /\ en_vuelo = << >>

PeticionIniciarJuego ==
    \E s \in iniciar_juego :
        /\ juego_actual' = s.juego
        /\ historial_disparos_ia' = s.historial
        /\ respuesta' = Pedido("iniciar_juego", s.respuesta)
        /\ en_vuelo' = Desligar(en_vuelo, juego_actual)

PeticionColocarBarcos(colocacion) ==
    LET s == colocar_barcos(juego_actual, historial_disparos_ia, colocacion) IN
    /\ juego_actual' = s.juego
    /\ historial_disparos_ia' = s.historial
    /\ respuesta' = Pedido("colocar_barcos", s.respuesta)
    /\ UNCHANGED en_vuelo

PeticionDisparar(x, y) ==
    LET s == disparar(juego_actual, historial_disparos_ia, x, y) IN
    /\ juego_actual' = s.juego
    /\ historial_disparos_ia' = s.historial
    /\ respuesta' = Pedido("disparar", s.respuesta)
    /\ UNCHANGED en_vuelo

\* vias and tope bound the exploration: the ways of choosing the cell that are
\* followed, and the shots the computer fires in one game.
PeticionTurnoIA(oraculo, vias, tope) ==
    \E s \in turno_ia(juego_actual, historial_disparos_ia, oraculo) :
        /\ s.respuesta.celda # << >>
             => s.respuesta.via \in vias /\ Len(historial_disparos_ia) < tope
        /\ juego_actual' = s.juego
        /\ historial_disparos_ia' = s.historial
        /\ respuesta' = Pedido("turno_ia", s.respuesta)
        /\ UNCHANGED en_vuelo

(***************************************************************************)
(* The requests explored.                                                  *)
(***************************************************************************)
Horizontal(x, y, n) == [i \in 1 .. n |-> <<x, y + i - 1>>]

Vertical(x, y, n) == [i \in 1 .. n |-> <<x + i - 1, y>>]

BarcoEnviado(nombre, posiciones) == [nombre |-> nombre, posiciones |-> posiciones]

FlotaJugador ==
    << BarcoEnviado("Portaaviones", Horizontal(0, 5, 5)),
       BarcoEnviado("Acorazado",    Horizontal(2, 2, 4)),
       BarcoEnviado("Crucero",      Horizontal(1, 2, 3)),
       BarcoEnviado("Submarino",    Horizontal(1, 6, 3)),
       BarcoEnviado("Destructor",   Horizontal(0, 0, 2)) >>

Envios ==
    { FlotaJugador,
      \* the Destructor is missing
      SubSeq(FlotaJugador, 1, 4),
      \* the last ship overlaps the Portaaviones
      [FlotaJugador EXCEPT ![5] = BarcoEnviado("Destructor", Horizontal(0, 4, 2))] }

\* The cells of tablero that hold an intact ship cell.
Intactas(tablero) == { c \in Celdas : tablero[c] = "O" }

\* The cells of a target grid not marked yet.
SinMarcar(tablero_disparos) == { c \in Celdas : tablero_disparos[c] = "~" }

\* A cell of the computer's Destructor, a water cell, and two coordinates
\* outside the grid: one wraps around as a Python index, one raises.
SondasJugador == { <<0, 8>>, <<9, 9>>, <<-1, 9>>, <<10, 0>> }

\* The player's shots: the probes and the first intact cell of the computer's fleet.
DisparosJugador ==
    SondasJugador \cup
      (IF juego_actual # None /\ Intactas(juego_actual.tablero_ia.tablero) # {}
       THEN { PrimeraCelda(Intactas(juego_actual.tablero_ia.tablero)) }
       ELSE {})

\* The water cell the oracle may name.
SondaOraculo == <<1, 0>>

\* The answers of the oracle that name the cell c, in the shapes the adapter reads.
RespuestasCon(c) ==
    { \* {"x": .., "y": ..}
      Texto(<<ObjetoEntero(c[1], c[2])>>, c),
      \* the same after an unparsable match, a non-numeric one and one out of range
      Texto(<<ObjetoInvalido,
              Objeto(Valor("texto", 0), Valor("entero", 3)),
              ObjetoEntero(10, 0),
              ObjetoEntero(c[1], c[2])>>, <<10, 0>>),
      \* as floats: c.9 and c.0
      Texto(<<Objeto(Valor("real", 10 * c[1] + 9), Valor("real", 10 * c[2]))>>, << >>),
      \* free text: no object, the cell by the second pattern
      Texto(<< >>, c) }

\* The answers of the oracle that name no usable cell.
RespuestasInutiles ==
    { Texto(<< >>, << >>),                               \* free text without coordinates
      Texto(<<ObjetoEntero(10, 3)>>, <<10, 3>>),         \* out of range
      Texto(<<Objeto(Valor("nofinito", 0), Valor("entero", 3))>>, << >>),  \* NaN
      OraculoFalla }                                     \* the call raises

\* The oracle in a whole game: it names the first intact cell of the player's
\* fleet that the computer's target grid does not mark, or its water cell (in
\* the first shots of a game, and in a game that is over).
RespuestasOraculo ==
    LET libres == IF juego_actual = None THEN {}
                  ELSE Intactas(juego_actual.tablero_jugador.tablero)
                         \cap SinMarcar(juego_actual.tablero_ia.tablero_disparos)
    IN  (IF libres # {} THEN RespuestasCon(PrimeraCelda(libres)) ELSE {})
        \cup (IF \/ Len(historial_disparos_ia) < MaxHistorialSonda
                 \/ (juego_actual # None /\ juego_actual.game_over)
              THEN RespuestasCon(SondaOraculo) ELSE {})

Next ==
    \/ PeticionIniciarJuego
    \/ \E colocacion \in Envios : PeticionColocarBarcos(colocacion)
    \/ \E d \in DisparosJugador : PeticionDisparar(d[1], d[2])
    \/ \E oraculo \in RespuestasOraculo :
          PeticionTurnoIA(oraculo, {"oraculo"}, tamano * tamano)

Spec == Init /\ [][Next]_vars

(***************************************************************************)
(* The first shots of the computer with an oracle that may fail: every     *)
(* cell the fallback can choose is followed.  The player only fires at a   *)
(* water cell, which passes the turn.                                      *)
(***************************************************************************)
DisparosJugadorHeuristica == { <<9, 9>> }

RespuestasOraculoHeuristica ==
    LET libres == IF juego_actual = None THEN {}
                  ELSE Intactas(juego_actual.tablero_jugador.tablero)
                         \cap SinMarcar(juego_actual.tablero_ia.tablero_disparos)
    IN  (IF libres # {} THEN RespuestasCon(PrimeraCelda(libres)) ELSE {})
        \cup RespuestasCon(SondaOraculo)
        \cup RespuestasInutiles

NextHeuristica ==
    \/ PeticionIniciarJuego
    \/ \E colocacion \in Envios : PeticionColocarBarcos(colocacion)
    \/ \E d \in DisparosJugadorHeuristica : PeticionDisparar(d[1], d[2])
    \/ \E oraculo \in RespuestasOraculoHeuristica :
          PeticionTurnoIA(oraculo, {"oraculo", "heuristica"}, MaxDisparosHeuristica)

SpecHeuristica == Init /\ [][NextHeuristica]_vars

(***************************************************************************)
(* The computer sweeping the grid: the oracle names the first cell of the  *)
(* computer's target grid that is not marked, and a marked one when every  *)
(* cell is marked.  The player fires at the computer's Destructor and at a *)
(* water cell.                                                             *)
(***************************************************************************)
DisparosJugadorBarrido == { <<0, 8>>, <<0, 9>>, <<9, 9>> }

RespuestasOraculoBarrido ==
    LET libres == IF juego_actual = None THEN {}
                  ELSE SinMarcar(juego_actual.tablero_ia.tablero_disparos)
    IN  IF libres # {} THEN RespuestasCon(PrimeraCelda(libres))
        ELSE RespuestasCon(<<0, 0>>) \cup { OraculoFalla }

NextBarrido ==
    \/ PeticionIniciarJuego
    \/ \E colocacion \in Envios : PeticionColocarBarcos(colocacion)
    \/ \E d \in DisparosJugadorBarrido : PeticionDisparar(d[1], d[2])
    \/ \E oraculo \in RespuestasOraculoBarrido :
          PeticionTurnoIA(oraculo, {"oraculo", "heuristica"}, MaxDisparosBarrido)

SpecBarrido == Init /\ [][NextBarrido]_vars

(***************************************************************************)
(* Overlapping requests: turno_ia calls are suspended on the oracle while  *)
(* other requests run, up to MaxEnVuelo at a time.  The oracle names a     *)
(* cell of the player's Destructor or its water cell; the shots followed   *)
(* are those of the cells it names.                                        *)
(***************************************************************************)
DisparosJugadorSolapados == { <<9, 9>>, <<0, 8>> }

RespuestasOraculoSolapadas ==
    { Texto(<<ObjetoEntero(c[1], c[2])>>, << >>) : c \in { <<0, 0>>, <<0, 1>>, SondaOraculo } }

NextSolapado ==
    \/ PeticionIniciarJuego
    \/ PeticionColocarBarcos(FlotaJugador)
    \/ \E d \in DisparosJugadorSolapados : PeticionDisparar(d[1], d[2])
    \/ TurnoIAEntra
    \/ \E i \in DOMAIN en_vuelo : \E oraculo \in RespuestasOraculoSolapadas :
          TurnoIASale(i, oraculo, {"oraculo"})

SpecSolapado == Init /\ [][NextSolapado]_vars

(***************************************************************************)
(* The computer missing shot after shot: the oracle names the first cell   *)
(* of the player's owner grid that holds water and has not been shot at.   *)
(* The player fires at one water cell, again and again, which passes the   *)
(* turn each time.                                                         *)
(***************************************************************************)
RespuestasOraculoAgua ==
    LET libres == IF juego_actual = None THEN {}
                  ELSE { c \in Celdas : juego_actual.tablero_jugador.tablero[c] = "~" }
    IN  IF libres # {} THEN { Texto(<<ObjetoEntero(PrimeraCelda(libres)[1],
                                                   PrimeraCelda(libres)[2])>>, << >>) }
        ELSE {}

NextAgua ==
    \/ PeticionIniciarJuego
    \/ PeticionColocarBarcos(FlotaJugador)
    \/ PeticionDisparar(9, 9)
    \/ \E oraculo \in RespuestasOraculoAgua :
          PeticionTurnoIA(oraculo, {"oraculo"}, MaxDisparosAgua)

SpecAgua == Init /\ [][NextAgua]_vars

(***************************************************************************)
(* Properties.  PLAYING is fase "juego" with game_over false; FINISHED is  *)
(* game_over true (the source keeps fase at "juego").                      *)
(***************************************************************************)
EnJuego == juego_actual # None /\ juego_actual.fase = "juego" /\ ~juego_actual.game_over

Marcas == {"X", "F", "H"}

\* The step is a request op that resolved a shot (its answer carries the cell).
DisparoResuelto(op) == respuesta'.op = op /\ respuesta'.celda # << >>

\* The step is an accepted shot of the player, or of the computer, from PLAYING.
DisparoJugadorAceptado == EnJuego /\ juego_actual.turno_jugador /\ DisparoResuelto("disparar")

DisparoIAAceptado == EnJuego /\ ~juego_actual.turno_jugador /\ DisparoResuelto("turno_ia")

\* Grids, fleets, turn, phase and winner are the same in the games a and b.
MismoJuego(a, b) ==
    /\ a.tablero_jugador = b.tablero_jugador
    /\ a.tablero_ia = b.tablero_ia
    /\ a.turno_jugador = b.turno_jugador
    /\ a.fase = b.fase
    /\ a.game_over = b.game_over
    /\ a.ganador = b.ganador

\* C1: in PLAYING, a shot at an in-bounds cell that the shooter's target grid
\* already marks HIT, MISS or SUNK (the player's by disparar, the computer's by
\* turno_ia) is answered as a repeat and leaves grids, fleets, turn, phase and
\* winner as they were.
C1_RepetidoNoCambiaNada ==
    [][ /\ (DisparoJugadorAceptado /\ respuesta'.celda \in Celdas
              /\ juego_actual.tablero_jugador.tablero_disparos[respuesta'.celda] \in Marcas)
            => (respuesta'.resultado = ResRepetido /\ MismoJuego(juego_actual', juego_actual))
        /\ (DisparoIAAceptado /\ respuesta'.celda \in Celdas
              /\ juego_actual.tablero_ia.tablero_disparos[respuesta'.celda] \in Marcas)
            => (respuesta'.resultado = ResRepetido /\ MismoJuego(juego_actual', juego_actual))
      ]_vars

\* Every ship of barcos with as many hits as cells is flagged sunk and reads
\* "H" in all its cells on tablero_disparos.
HundidosMarcados(barcos, tablero_disparos) ==
    \A i \in DOMAIN barcos :
        barcos[i].impactos = Len(barcos[i].posiciones)
          => /\ barcos[i].hundido
             /\ \A c \in Elementos(barcos[i].posiciones) : tablero_disparos[c] = "H"

\* C2: in every reachable state, a ship whose hit counter has reached its length
\* is flagged sunk and all its cells read SUNK on the target grid of the side
\* that shot at it: the player's for the computer's ships, the computer's for
\* the player's ships.
C2_HundidoMarcaTodasLasCeldas ==
    juego_actual # None =>
        /\ HundidosMarcados(juego_actual.tablero_ia.barcos,
                            juego_actual.tablero_jugador.tablero_disparos)
        /\ HundidosMarcados(juego_actual.tablero_jugador.barcos,
                            juego_actual.tablero_ia.tablero_disparos)

\* C3: a request that resolves a shot and leaves the defending fleet all sunk
\* ends the game with the shooter as winner; no PLAYING state has a fleet all
\* sunk; the winner is unset unless the game is FINISHED, and a FINISHED game
\* has the fleet of the loser all sunk.
C3_FlotaHundidaTerminaElJuego ==
    juego_actual # None =>
        /\ (respuesta.op = "disparar" /\ respuesta.celda # << >> /\ respuesta.codigo = 200
              /\ todos_barcos_hundidos(juego_actual.tablero_ia.barcos))
             => (juego_actual.game_over /\ juego_actual.ganador = "jugador")
        /\ (respuesta.op = "turno_ia" /\ respuesta.celda # << >> /\ respuesta.codigo = 200
              /\ todos_barcos_hundidos(juego_actual.tablero_jugador.barcos))
             => (juego_actual.game_over /\ juego_actual.ganador = "ia")
        /\ EnJuego => /\ \E i \in DOMAIN juego_actual.tablero_ia.barcos :
                            ~juego_actual.tablero_ia.barcos[i].hundido
                      /\ \E i \in DOMAIN juego_actual.tablero_jugador.barcos :
                            ~juego_actual.tablero_jugador.barcos[i].hundido
        /\ ~juego_actual.game_over => juego_actual.ganador = "None"
        /\ juego_actual.game_over =>
             \/ /\ juego_actual.ganador = "jugador"
                /\ \A i \in DOMAIN juego_actual.tablero_ia.barcos :
                       juego_actual.tablero_ia.barcos[i].impactos
                         = Len(juego_actual.tablero_ia.barcos[i].posiciones)
             \/ /\ juego_actual.ganador = "ia"
                /\ \A i \in DOMAIN juego_actual.tablero_jugador.barcos :
                       juego_actual.tablero_jugador.barcos[i].impactos
                         = Len(juego_actual.tablero_jugador.barcos[i].posiciones)

\* The player's shot that sank the last ship of the computer has ended the game.
C3_Testigo ==
    /\ juego_actual # None /\ juego_actual.game_over /\ juego_actual.ganador = "jugador"
    /\ respuesta.op = "disparar" /\ respuesta.resultado.tipo = "HUNDIDO"
    /\ Len(juego_actual.tablero_ia.barcos) = 5

\* C4: in PLAYING, an accepted shot at a cell the shooter's target grid does not
\* mark is a hit, a sink or a miss, and unless it ends the game the turn stays
\* with the shooter after a hit or a sink and passes to the other side after a
\* miss; for the player and for the computer.
C4_TurnoTrasDisparo ==
    [][ /\ (DisparoJugadorAceptado /\ respuesta'.celda \in Celdas
              /\ juego_actual.tablero_jugador.tablero_disparos[respuesta'.celda] = "~")
            => /\ respuesta'.resultado.tipo \in {"TOCADO", "HUNDIDO", "AGUA"}
               /\ ~juego_actual'.game_over =>
                    juego_actual'.turno_jugador
                      = (respuesta'.resultado.tipo \in {"TOCADO", "HUNDIDO"})
        /\ (DisparoIAAceptado /\ respuesta'.celda \in Celdas
              /\ juego_actual.tablero_ia.tablero_disparos[respuesta'.celda] = "~")
            => /\ respuesta'.resultado.tipo \in {"TOCADO", "HUNDIDO", "AGUA"}
               /\ ~juego_actual'.game_over =>
                    juego_actual'.turno_jugador
                      = (respuesta'.resultado.tipo \notin {"TOCADO", "HUNDIDO"})
      ]_vars

\* The player has sunk a ship without ending the game and still holds the turn.
C4_Testigo ==
    /\ EnJuego /\ juego_actual.turno_jugador
    /\ respuesta.op = "disparar" /\ respuesta.resultado.tipo = "HUNDIDO"

\* C5 as stated: when an accepted turno_ia call returns, the turn belongs to the
\* player or the game is FINISHED.
C5_TurnoIAHastaFallar ==
    (juego_actual # None /\ respuesta.op = "turno_ia" /\ respuesta.codigo = 200)
        => (juego_actual.turno_jugador \/ juego_actual.game_over)

\* C5 amended: an accepted turno_ia call resolves exactly one shot of the
\* computer and returns.  It appends one shot record; if the player's fleet is
\* then all sunk the game is FINISHED; otherwise the turn belongs to the player
\* after a miss and is still the computer's after a hit or a sink.
C5_TurnoIAUnDisparo ==
    [][ DisparoIAAceptado =>
          /\ respuesta'.codigo = 200
          /\ Len(historial_disparos_ia') = Len(historial_disparos_ia) + 1
          /\ juego_actual'.game_over
               = todos_barcos_hundidos(juego_actual'.tablero_jugador.barcos)
          /\ ~juego_actual'.game_over =>
               juego_actual'.turno_jugador
                 = (respuesta'.resultado.tipo \notin {"TOCADO", "HUNDIDO"})
      ]_vars

\* A turno_ia call has returned after a hit with the turn still the computer's.
C5_Testigo ==
    /\ EnJuego /\ ~juego_actual.turno_jugador
    /\ respuesta.op = "turno_ia" /\ respuesta.codigo = 200
    /\ respuesta.resultado.tipo = "TOCADO"

\* C6: the cell the fallback heuristic chose for an accepted shot of the computer
\* is a cell of the grid that the computer's target grid did not mark, whatever
\* path of the heuristic chose it and whatever play led to the grid.
C6_HeuristicaNoRepite ==
    [][ (DisparoIAAceptado /\ respuesta'.via = "heuristica")
          => respuesta'.celda \in SinMarcar(juego_actual.tablero_ia.tablero_disparos)
      ]_vars

\* C7: while the computer's target grid holds a HIT cell, every cell the
\* heuristic may return is unshot and orthogonally adjacent to a HIT cell, also
\* after ships have been sunk.
C7_AdyacenteAImpacto ==
    (EnJuego /\ ~juego_actual.turno_jugador /\ ImpactosVistos(juego_actual) # {})
        => \A c \in generar_coordenadas_aleatorias(disparos_previos(juego_actual), juego_actual) :
              /\ c \in SinMarcar(juego_actual.tablero_ia.tablero_disparos)
              /\ \E h \in ImpactosVistos(juego_actual) : c \in Vecinas(h)

\* Answers of the oracle that suggest the one cell c, as an object and as text.
SugerenciasDe(c) ==
    { Texto(<<ObjetoEntero(c[1], c[2])>>, << >>) }
      \cup (IF c[1] >= 0 /\ c[2] >= 0 THEN { Texto(<< >>, c) } ELSE {})

\* Suggestions outside the grid, and the marked cells of a target grid that
\* come first and last in row order.
FueraDeRango == { <<10, 3>>, <<3, 10>>, <<-1, 3>>, <<3, -1>>, <<12, 12>> }

ExtremosMarcados(previos) ==
    IF previos = {} THEN {}
    ELSE { PrimeraCelda(previos),
           CHOOSE c \in previos : \A d \in previos : Orden(d) <= Orden(c) }

\* C8: whatever the oracle answers, the cell obtener_disparo_ia hands to the
\* resolver is a cell of the grid that the computer's target grid does not mark,
\* and a suggestion outside the grid or already marked is not the one handed on:
\* the heuristic chooses instead.
C8_CeldaEntregadaValida ==
    (EnJuego /\ ~juego_actual.turno_jugador) =>
        LET previos == disparos_previos(juego_actual)
            libres == SinMarcar(juego_actual.tablero_ia.tablero_disparos)
            descartadas == FueraDeRango \cup ExtremosMarcados(previos)
        IN  /\ \A o \in RespuestasInutiles \cup RespuestasCon(SondaOraculo)
                         \cup UNION { SugerenciasDe(c) : c \in descartadas } :
                  \A d \in obtener_disparo_ia(juego_actual, juego_actual, o) :
                      d.celda \in libres
            /\ \A c \in descartadas : \A o \in SugerenciasDe(c) :
                  \A d \in obtener_disparo_ia(juego_actual, juego_actual, o) :
                      d.via = "heuristica"

\* The owner grid b is the owner grid a after at most a shot at the cell c.
UnDisparoEn(a, b, c) ==
    /\ \A d \in Celdas \ {c} : b[d] = a[d]
    /\ b[c] \in {"X", "F"}

\* C9: on the computer's turn in PLAYING, obtener_disparo_ia returns a cell for
\* every answer of the oracle, failures included, and the heuristic's cell when
\* the answer is unusable; and every accepted turno_ia call returns the game
\* with status 200 after resolving exactly one shot at a cell of the grid and
\* appending one record of it, a shot chosen by the heuristic being one that
\* generar_coordenadas_aleatorias may return.
C9_FalloDelOraculoNoAborta ==
    /\ [] ( (EnJuego /\ ~juego_actual.turno_jugador) =>
              /\ \A o \in RespuestasOraculoHeuristica :
                    obtener_disparo_ia(juego_actual, juego_actual, o) # {}
              /\ \A o \in RespuestasInutiles :
                    \A s \in turno_ia(juego_actual, historial_disparos_ia, o) :
                        s.respuesta.codigo = 200 /\ s.respuesta.via = "heuristica" )
    /\ [][ DisparoIAAceptado =>
              /\ respuesta'.codigo = 200
              /\ juego_actual' # None
              /\ respuesta'.celda \in Celdas
              /\ Len(historial_disparos_ia') = Len(historial_disparos_ia) + 1
              /\ <<historial_disparos_ia'[Len(historial_disparos_ia')].x,
                   historial_disparos_ia'[Len(historial_disparos_ia')].y>> = respuesta'.celda
              /\ UnDisparoEn(juego_actual.tablero_jugador.tablero,
                             juego_actual'.tablero_jugador.tablero, respuesta'.celda)
              /\ juego_actual'.tablero_ia.tablero_disparos[respuesta'.celda] \in Marcas
              /\ respuesta'.via = "heuristica" =>
                   respuesta'.celda \in
                     generar_coordenadas_aleatorias(disparos_previos(juego_actual),
                                                    juego_actual)
         ]_vars

\* A turno_ia call has returned a shot that the heuristic chose.
C9_Testigo ==
    /\ juego_actual # None
    /\ respuesta.op = "turno_ia" /\ respuesta.codigo = 200
    /\ respuesta.via = "heuristica" /\ respuesta.celda \in Celdas
    /\ Len(historial_disparos_ia) > 0

\* C10: in PLAYING, on the player's turn, a shot with x or y outside [0, 10),
\* negatives included, fails and leaves grids, fleets, turn, phase and winner as
\* they were.
C10_FueraDelTableroNoCambiaNada ==
    [][ (EnJuego /\ juego_actual.turno_jugador /\ respuesta'.op = "disparar"
           /\ respuesta'.celda # << >> /\ respuesta'.celda \notin Celdas)
          => (respuesta'.codigo # 200 /\ MismoJuego(juego_actual', juego_actual))
      ]_vars

\* FINISHED: a game whose game_over is set.
Terminado == juego_actual # None /\ juego_actual.game_over

\* The step leaves the game and the computer's shot record as they were.
NadaCambia ==
    /\ juego_actual' = juego_actual
    /\ historial_disparos_ia' = historial_disparos_ia

C12_TerminadoEsTerminal ==
    [][ /\ (Terminado /\ respuesta'.op \in {"disparar", "turno_ia", "colocar_barcos"})
            => /\ NadaCambia
               /\ respuesta'.celda = << >>
               /\ respuesta'.op = "colocar_barcos" => respuesta'.codigo = 400
        /\ (Terminado /\ respuesta'.op = "iniciar_juego")
            => (juego_actual'.fase = "colocacion" /\ ~juego_actual'.game_over)
      ]_vars

\* A turno_ia call has returned from a game the computer had won.
C12_Testigo ==
    /\ Terminado /\ juego_actual.ganador = "ia"
    /\ respuesta.op = "turno_ia" /\ respuesta.codigo = 200 /\ respuesta.celda = << >>

\* C13: a disparar call during PLACEMENT or, in PLAYING, while the computer
\* holds the turn, and a turno_ia call during PLACEMENT or, in PLAYING, while the
\* player holds the turn, is answered with an error and leaves the game and the
\* computer's shot record as they were.
C13_FaseOTurnoEquivocado ==
    [][ /\ (juego_actual # None /\ respuesta'.op = "disparar"
              /\ (juego_actual.fase = "colocacion" \/ (EnJuego /\ ~juego_actual.turno_jugador)))
            => (respuesta'.codigo = 400 /\ respuesta'.detalle # "" /\ NadaCambia)
        /\ (juego_actual # None /\ respuesta'.op = "turno_ia"
              /\ (juego_actual.fase = "colocacion" \/ (EnJuego /\ juego_actual.turno_jugador)))
            => (respuesta'.codigo = 400 /\ respuesta'.detalle # "" /\ NadaCambia)
      ]_vars

\* A turno_ia call has been rejected in PLAYING because the player holds the turn.
C13_Testigo ==
    /\ EnJuego /\ juego_actual.turno_jugador
    /\ respuesta.op = "turno_ia" /\ respuesta.codigo = 400

(***************************************************************************)
(* Fleet submissions.  A valid fleet is described by the rules themselves, *)
(* apart from the validation loop of colocar_barcos.                       *)
(***************************************************************************)
\* The cells of a ship lie in one row or one column and form a run without gaps.
EnLineaSinHuecos(posiciones) ==
    LET S == Elementos(posiciones) IN
    \E c \in S :
        \/ S = { <<c[1], c[2] + k>> : k \in 0 .. (Cardinality(S) - 1) }
        \/ S = { <<c[1] + k, c[2]>> : k \in 0 .. (Cardinality(S) - 1) }

FlotaValida(colocacion) ==
    /\ Len(colocacion) = Len(barcos_config)
    /\ \A n \in Nombres : Cardinality({ i \in DOMAIN colocacion : colocacion[i].nombre = n }) = 1
    /\ \A i \in DOMAIN colocacion :
          /\ colocacion[i].nombre \in Nombres
          /\ Len(colocacion[i].posiciones) = LongitudConfig(colocacion[i].nombre)
          /\ Elementos(colocacion[i].posiciones) \subseteq Celdas
          /\ Cardinality(Elementos(colocacion[i].posiciones)) = Len(colocacion[i].posiciones)
          /\ EnLineaSinHuecos(colocacion[i].posiciones)
    /\ \A i, k \in DOMAIN colocacion :
          i # k => Elementos(colocacion[i].posiciones)
                     \cap Elementos(colocacion[k].posiciones) = {}

\* Cell lists for a ship of n cells: runs along a row and along a column from
\* origins inside and outside the grid, forward and backward, shorter and
\* longer by one, and runs with a gap, a bend, a diagonal, a repeated cell, and
\* a repeated cell that leaves a gap.
Origenes == { <<-1, 0>>, <<0, 0>>, <<0, 4>>, <<1, 9>>, <<3, 0>>, <<4, 6>>, <<6, 3>>,
              <<8, 8>>, <<9, 0>>, <<9, 9>> }

Invertida(posiciones) ==
    [i \in DOMAIN posiciones |-> posiciones[Len(posiciones) + 1 - i]]

ListasDeCeldas(n) ==
    UNION { { Horizontal(o[1], o[2], n), Vertical(o[1], o[2], n),
              Invertida(Horizontal(o[1], o[2], n)),
              Horizontal(o[1], o[2], n - 1), Vertical(o[1], o[2], n + 1),
              [Horizontal(o[1], o[2], n) EXCEPT ![n] = <<o[1], o[2] + n>>],
              [Vertical(o[1], o[2], n) EXCEPT ![n] = <<o[1] + n - 2, o[2] + 1>>],
              [i \in 1 .. n |-> <<o[1] + i - 1, o[2] + i - 1>>],
              [Horizontal(o[1], o[2], n) EXCEPT ![n] = <<o[1], o[2]>>],
              [Vertical(o[1], o[2], n) EXCEPT ![2] = <<o[1], o[2]>>] } : o \in Origenes }

\* The submissions tried: FlotaJugador with one ship given another cell list,
\* and submissions whose names are not the catalog's once each.
EnviosProbados ==
    { [FlotaJugador EXCEPT ![i] = BarcoEnviado(FlotaJugador[i].nombre, l)] :
        i \in DOMAIN FlotaJugador, l \in ListasDeCeldas(3) \cup ListasDeCeldas(2)
                                            \cup ListasDeCeldas(5) \cup ListasDeCeldas(4) }
      \cup Envios
      \cup { << >>,
             Invertida(FlotaJugador),
             [FlotaJugador EXCEPT ![5].nombre = "Fragata"],
             [FlotaJugador EXCEPT ![5].nombre = "Portaaviones"],
             [FlotaJugador EXCEPT ![4].nombre = "Crucero"],
             Append(FlotaJugador, BarcoEnviado("Destructor", Horizontal(9, 0, 2))),
             Append(FlotaJugador, BarcoEnviado("Fragata", Horizontal(9, 0, 2))) }

\* C14: in PLACEMENT, colocar_barcos accepts a submission exactly when its names
\* are the five catalog names once each, every ship has its catalog number of
\* cells, all cells are in the grid, no cell is used twice within a ship or
\* across ships, and each ship's cells lie in one row or one column without
\* gaps.
C14_AceptaSoloFlotasValidas ==
    (juego_actual # None /\ juego_actual.fase = "colocacion") =>
        \A colocacion \in EnviosProbados :
            (colocar_barcos(juego_actual, historial_disparos_ia, colocacion).respuesta.codigo = 200)
              <=> FlotaValida(colocacion)

\* A submitted fleet has been accepted.
C14_Testigo ==
    /\ juego_actual # None /\ juego_actual.fase = "juego"
    /\ respuesta.op = "colocar_barcos" /\ respuesta.codigo = 200
    /\ Len(juego_actual.tablero_jugador.barcos) = 5

\* The game is in PLACEMENT as iniciar_juego left it: no player ship, the
\* player's owner grid all EMPTY.
SinFlotaJugador(juego) ==
    /\ juego.fase = "colocacion"
    /\ juego.tablero_jugador.barcos = << >>
    /\ juego.tablero_jugador.tablero = crear_tablero

\* C15: a colocar_barcos call that rejects the submission, whichever ship and
\* rule make it fail, leaves the game as it was: in PLACEMENT, with no player
\* ship and the player's owner grid all EMPTY.
C15_RechazoNoEscribe ==
    /\ [] ( (juego_actual # None /\ juego_actual.fase = "colocacion") =>
              /\ SinFlotaJugador(juego_actual)
              /\ \A colocacion \in EnviosProbados :
                    LET s == colocar_barcos(juego_actual, historial_disparos_ia, colocacion) IN
                    s.respuesta.codigo # 200
                      => (s.respuesta.codigo = 400 /\ s.juego = juego_actual
                            /\ s.historial = historial_disparos_ia) )
    /\ [][ (juego_actual # None /\ juego_actual.fase = "colocacion"
              /\ respuesta'.op = "colocar_barcos" /\ respuesta'.codigo # 200)
             => (NadaCambia /\ SinFlotaJugador(juego_actual')) ]_vars

\* A submission has been rejected at its last ship, the earlier ones valid.
C15_Testigo ==
    /\ juego_actual # None /\ SinFlotaJugador(juego_actual)
    /\ respuesta.op = "colocar_barcos" /\ respuesta.codigo = 400
    /\ respuesta.detalle = "Posicion invalida"

\* C16: a colocar_barcos call accepted in PLACEMENT leaves the game in PLAYING
\* with the turn held by the player; once the phase is "juego" every
\* colocar_barcos call is rejected and changes nothing, and no request but
\* iniciar_juego takes the phase back to PLACEMENT.
C16_FlotaUnaVezPorJuego ==
    /\ [] ( (juego_actual # None /\ juego_actual.fase = "juego") =>
              \A colocacion \in Envios \cup {Invertida(FlotaJugador)} :
                  LET s == colocar_barcos(juego_actual, historial_disparos_ia, colocacion) IN
                  s.respuesta.codigo = 400 /\ s.juego = juego_actual )
    /\ [][ /\ (juego_actual # None /\ juego_actual.fase = "colocacion"
                 /\ respuesta'.op = "colocar_barcos" /\ respuesta'.codigo = 200)
               => /\ juego_actual'.fase = "juego" /\ juego_actual'.turno_jugador
                  /\ ~juego_actual'.game_over
           /\ (juego_actual # None /\ juego_actual.fase = "juego"
                 /\ respuesta'.op = "colocar_barcos")
               => (respuesta'.codigo = 400 /\ NadaCambia)
           /\ (juego_actual # None /\ juego_actual.fase = "juego"
                 /\ respuesta'.op # "iniciar_juego")
               => juego_actual'.fase = "juego"
         ]_vars

\* A colocar_barcos call has been rejected in a game whose fleet was placed and
\* has been shot at.
C16_Testigo ==
    /\ juego_actual # None /\ juego_actual.fase = "juego"
    /\ respuesta.op = "colocar_barcos" /\ respuesta.codigo = 400
    /\ Len(historial_disparos_ia) > 0

\* The step resumes a turno_ia call that was suspended in the game that is
\* still juego_actual, and resolves its shot.
ReanudaEnElMismoJuego ==
    /\ respuesta'.op = "turno_ia" /\ respuesta'.celda # << >>
    /\ \E i \in DOMAIN en_vuelo : en_vuelo[i].vigente /\ en_vuelo' = Quitar(en_vuelo, i)

\* C17: with turno_ia calls overlapping each other or disparar in one game,
\* every shot of the computer is resolved in a state in PLAYING where the
\* computer holds the turn, and at a cell that the computer's target grid does
\* not mark at that moment.
C17_SeccionCritica ==
    [][ ReanudaEnElMismoJuego
          => /\ EnJuego /\ ~juego_actual.turno_jugador
             /\ respuesta'.celda \in SinMarcar(juego_actual.tablero_ia.tablero_disparos)
      ]_vars

\* C18: a game in PLACEMENT is as iniciar_juego left it, whatever turno_ia
\* calls were suspended when it was created: no player ship, the player's owner
\* grid and both target grids all EMPTY, no shot record, not finished, no
\* winner.
C18_JuegoNuevoIntacto ==
    (juego_actual # None /\ juego_actual.fase = "colocacion") =>
        /\ SinFlotaJugador(juego_actual)
        /\ juego_actual.tablero_jugador.tablero_disparos = crear_tablero
        /\ juego_actual.tablero_ia.tablero_disparos = crear_tablero
        /\ historial_disparos_ia = << >>
        /\ ~juego_actual.game_over
        /\ juego_actual.ganador = "None"


(***************************************************************************)
(* Fleets and owner grids.  PLAYING and FINISHED are the states with fase  *)
(* "juego"; a cell of an owner grid is occupied when it reads "O" or, once *)
(* hit, "X".                                                               *)
(***************************************************************************)
Ocupadas(tablero) == { c \in Celdas : tablero[c] \in {"O", "X"} }

CeldasDeFlota(barcos) == UNION { Elementos(barcos[i].posiciones) : i \in DOMAIN barcos }

LadoValido(lado) ==
    /\ FlotaValida(lado.barcos)
    /\ Ocupadas(lado.tablero) = CeldasDeFlota(lado.barcos)

\* C19: in every state with a game the computer's fleet is valid, and in
\* PLAYING and FINISHED the player's fleet is valid too: one ship per catalog
\* name, each with its catalog number of cells, in the grid, in one row or
\* column without gaps, no cell shared by two ships, and the owner grid occupied
\* at exactly the cells of the fleet; every submission colocar_barcos accepts
\* leaves the player's side so.
C19_FlotasValidas ==
    juego_actual # None =>
        /\ LadoValido(juego_actual.tablero_ia)
        /\ juego_actual.fase = "juego" => LadoValido(juego_actual.tablero_jugador)
        /\ juego_actual.fase = "colocacion" =>
              \A colocacion \in EnviosProbados :
                  LET s == colocar_barcos(juego_actual, historial_disparos_ia, colocacion) IN
                  s.respuesta.codigo = 200 => LadoValido(s.juego.tablero_jugador)

\* A finished game in which both owner grids show hits.
C19_Testigo ==
    /\ Terminado /\ juego_actual.fase = "juego"
    /\ \E c \in Celdas : juego_actual.tablero_jugador.tablero[c] = "X"
    /\ \E c \in Celdas : juego_actual.tablero_ia.tablero[c] = "X"


\* The game as iniciar_juego is to leave it: PLACEMENT, the player's turn, not
\* finished, no winner, no player ship, the player's owner grid and both target
\* grids all EMPTY, and the whole computer fleet placed, unhit and afloat.
JuegoFresco(juego) ==
    /\ SinFlotaJugador(juego)
    /\ juego.turno_jugador /\ ~juego.game_over /\ juego.ganador = "None"
    /\ juego.tablero_jugador.tablero_disparos = crear_tablero
    /\ juego.tablero_ia.tablero_disparos = crear_tablero
    /\ LadoValido(juego.tablero_ia)
    /\ \A c \in Celdas : juego.tablero_ia.tablero[c] \in {"~", "O"}
    /\ \A i \in DOMAIN juego.tablero_ia.barcos :
          juego.tablero_ia.barcos[i].impactos = 0 /\ ~juego.tablero_ia.barcos[i].hundido

\* C20: every iniciar_juego call, whatever the state it is made in (no game,
\* PLACEMENT, PLAYING, FINISHED), answers 200 and leaves a fresh game and an
\* empty shot record of the computer.
C20_JuegoNuevoFresco ==
    [][ respuesta'.op = "iniciar_juego"
          => /\ respuesta'.codigo = 200
             /\ JuegoFresco(juego_actual')
             /\ historial_disparos_ia' = << >>
      ]_vars

\* iniciar_juego has just replaced a game in PLAYING in which the computer had
\* shot and a turno_ia call was suspended, and has left a fresh game.
C20_Testigo ==
    /\ respuesta.op = "iniciar_juego" /\ respuesta.codigo = 200
    /\ juego_actual # None /\ JuegoFresco(juego_actual)
    /\ historial_disparos_ia = << >>
    /\ \E i \in DOMAIN en_vuelo : ~en_vuelo[i].vigente /\ en_vuelo[i].marcas # {}


(***************************************************************************)
(* Marks.  An owner grid reads "X" exactly at the ship cells the other     *)
(* side has fired at: procesar_disparo writes it and nothing removes it.   *)
(***************************************************************************)
Revela == {"X", "H"}

\* The target grid of a shooter shows a ship only where the defender's owner
\* grid records a hit.
SoloImpactosReales(tablero_disparos, tablero) ==
    \A c \in Celdas :
        /\ tablero_disparos[c] # "O"
        /\ tablero_disparos[c] \in Revela => tablero[c] = "X"

\* C21: no target grid holds the SHIP symbol, and a cell of a target grid
\* reads HIT or SUNK only if the shooter has hit a ship of the defender at
\* that cell.
C21_SoloImpactosReales ==
    juego_actual # None =>
        /\ SoloImpactosReales(juego_actual.tablero_jugador.tablero_disparos,
                              juego_actual.tablero_ia.tablero)
        /\ SoloImpactosReales(juego_actual.tablero_ia.tablero_disparos,
                              juego_actual.tablero_jugador.tablero)


(***************************************************************************)
(* The context obtener_disparo_ia sends to the oracle: estado_json, the    *)
(* only value interpolated into the prompt.  Lists built by the row-major  *)
(* scan of the target grid are given by the set they enumerate.            *)
(***************************************************************************)
disparos_realizados(game_state) ==
    { [x |-> c[1], y |-> c[2],
       resultado |-> IF game_state.tablero_ia.tablero_disparos[c] = "X" THEN "TOCADO"
                     ELSE IF game_state.tablero_ia.tablero_disparos[c] = "F" THEN "AGUA"
                     ELSE "HUNDIDO",
       celda |-> game_state.tablero_ia.tablero_disparos[c]] : c \in disparos_previos(game_state) }

impactos_no_hundidos(game_state) ==
    { c \in Celdas : game_state.tablero_ia.tablero_disparos[c] = "X" }

\* The last "X" cell of the scan, None without one.
ultimo_impacto(game_state) ==
    LET S == impactos_no_hundidos(game_state) IN
    IF S = {} THEN << >> ELSE CHOOSE c \in S : \A d \in S : Orden(d) <= Orden(c)

EsHundido(barco) == barco.hundido

EsDanado(barco) == barco.impactos > 0 /\ ~barco.hundido

ResumenHundido(barco) == [nombre |-> barco.nombre, longitud |-> Len(barco.posiciones)]

\* An entry of "barcos_dañados" that also carries the cells of the ship.
ResumenDanadoConPosiciones(barco) ==
    [nombre |-> barco.nombre, longitud |-> Len(barco.posiciones),
     impactos |-> barco.impactos, posiciones |-> barco.posiciones]

ResumenDanado(barco) ==
    [nombre |-> barco.nombre, longitud |-> Len(barco.posiciones), impactos |-> barco.impactos]

barcos_hundidos(game_state) ==
    LET hundidos == SelectSeq(game_state.tablero_jugador.barcos, EsHundido)
    IN  [i \in DOMAIN hundidos |-> ResumenHundido(hundidos[i])]

barcos_danados(game_state) ==
    LET danados == SelectSeq(game_state.tablero_jugador.barcos, EsDanado)
    IN  [i \in DOMAIN danados |-> ResumenDanado(danados[i])]

barcos_restantes(game_state) ==
    LET hundidos == { b.nombre : b \in Elementos(SelectSeq(game_state.tablero_jugador.barcos, EsHundido)) }
        Falta(barco_config) == barco_config.nombre \notin hundidos
    IN  SelectSeq(barcos_config, Falta)

\* Pairs of "X" cells next to each other along a row and along a column.
alineaciones(game_state) ==
    LET X == impactos_no_hundidos(game_state) IN
    { [direccion |-> "horizontal", fijo |-> c[1], min |-> c[2], max |-> c[2] + 1] :
        c \in { d \in X : <<d[1], d[2] + 1>> \in X } }
      \cup { [direccion |-> "vertical", fijo |-> c[2], min |-> c[1], max |-> c[1] + 1] :
               c \in { d \in X : <<d[1] + 1, d[2]>> \in X } }

historial_reciente(historial) ==
    SubSeq(historial, Max({1, Len(historial) - 9}), Len(historial))

ultimo_barco_hundido(historial) ==
    IF historial # << >> /\ historial[Len(historial)].hundio_barco # "None"
    THEN LET nombre == historial[Len(historial)].hundio_barco
             DeEse(disparo) == disparo.barco_objetivo = nombre
         IN  [nombre |-> nombre, disparos |-> SelectSeq(historial, DeEse)]
    ELSE [nombre |-> "None", disparos |-> << >>]

estado_json(game_state, historial) ==
    [disparos_realizados |-> disparos_realizados(game_state),
     impactos_no_hundidos |-> impactos_no_hundidos(game_state),
     ultimo_impacto |-> ultimo_impacto(game_state),
     barcos_hundidos |-> barcos_hundidos(game_state),
     barcos_danados |-> barcos_danados(game_state),
     barcos_restantes |-> barcos_restantes(game_state),
     matriz_tablero |-> game_state.tablero_ia.tablero_disparos,
     alineaciones_detectadas |-> alineaciones(game_state),
     historial_reciente |-> historial_reciente(historial),
     ultimo_barco_hundido |-> ultimo_barco_hundido(historial),
     turno_actual |-> Cardinality(disparos_previos(game_state)) + 1]

(***************************************************************************)
(* Games that differ from juego only in where the cells not hit yet of one *)
(* player ship lie: the ship is given another run of cells that keeps its  *)
(* hit cells and otherwise uses free cells of the owner grid.              *)
(***************************************************************************)
OrigenesReubicados == { <<0, 0>>, <<0, 2>>, <<5, 5>>, <<7, 1>> }

Reubicaciones(n) ==
    { l \in UNION { { Horizontal(o[1], o[2], n), Vertical(o[1], o[2], n) } : o \in OrigenesReubicados } :
        Elementos(l) \subseteq Celdas }

Reubicado(juego, i, l) ==
    LET lado   == juego.tablero_jugador
        viejas == Elementos(lado.barcos[i].posiciones)
        nuevas == Elementos(l)
    IN  [juego EXCEPT
           !.tablero_jugador.barcos[i].posiciones = l,
           !.tablero_jugador.tablero =
               [c \in Celdas |->
                  IF c \in nuevas THEN (IF c \in viejas THEN lado.tablero[c] ELSE "O")
                  ELSE IF c \in viejas THEN "~"
                  ELSE lado.tablero[c]]]

Variantes(juego) ==
    LET lado == juego.tablero_jugador IN
    { Reubicado(juego, i, l) :
        <<i, l>> \in { p \in (DOMAIN lado.barcos) \X
                                UNION { Reubicaciones(n) : n \in 2 .. 5 } :
                         LET viejas == Elementos(lado.barcos[p[1]].posiciones)
                             nuevas == Elementos(p[2])
                         IN  /\ Len(p[2]) = Len(lado.barcos[p[1]].posiciones)
                             /\ nuevas # viejas
                             /\ { c \in viejas : lado.tablero[c] = "X" } \subseteq nuevas
                             /\ \A c \in nuevas \ viejas : lado.tablero[c] = "~" } }

\* C22: two games that agree on the computer's target grid, on the shot record
\* and on the name, length, hit count and sunk flag of every player ship, and
\* differ in where the cells not hit yet of a player ship lie, give the same
\* context for the oracle and the same candidate cells of the heuristic.
C22_SoloLoRevelado ==
    (juego_actual # None /\ juego_actual.fase = "juego") =>
        LET contexto   == estado_json(juego_actual, historial_disparos_ia)
            candidatos == generar_coordenadas_aleatorias(disparos_previos(juego_actual),
                                                         juego_actual)
        IN  \A v \in Variantes(juego_actual) :
                /\ estado_json(v, historial_disparos_ia) = contexto
                /\ generar_coordenadas_aleatorias(disparos_previos(v), v) = candidatos

\* A player ship hit and not sunk can lie along another line through its hit
\* cell, and the computer's record holds hits and a miss.
C22_Testigo ==
    /\ EnJuego
    /\ \E v \in Variantes(juego_actual) : \E i \in DOMAIN v.tablero_jugador.barcos :
          /\ v.tablero_jugador.barcos[i].posiciones
               # juego_actual.tablero_jugador.barcos[i].posiciones
          /\ EsDanado(v.tablero_jugador.barcos[i])
    /\ \E k \in DOMAIN historial_disparos_ia : historial_disparos_ia[k].resultado = "AGUA"
    /\ \E c \in Celdas : juego_actual.tablero_ia.tablero_disparos[c] = "H"


(***************************************************************************)
(* One shot at a cell of the grid that has not been shot at: the owner     *)
(* grid of the defender still reads "O" or "~" there.                      *)
(***************************************************************************)
\* The ships of barcos not sunk that hold the cell c.
BarcosEn(barcos, c) ==
    { i \in DOMAIN barcos : c \in Elementos(barcos[i].posiciones) /\ ~barcos[i].hundido }

\* defensor and atacante are the two sides before the shot at c, defensor2 and
\* atacante2 after it; the attacker's target grid is atacante.tablero_disparos.
DisparoCorrecto(c, tipo, defensor, atacante, defensor2, atacante2) ==
    /\ tipo \in {"TOCADO", "HUNDIDO", "AGUA"}
    /\ tipo \in {"TOCADO", "HUNDIDO"} <=> BarcosEn(defensor.barcos, c) # {}
    /\ defensor2.tablero_disparos = defensor.tablero_disparos
    /\ tipo = "AGUA" =>
          /\ atacante2.tablero_disparos = [atacante.tablero_disparos EXCEPT ![c] = "F"]
          /\ defensor2.barcos = defensor.barcos
    /\ tipo = "TOCADO" =>
          /\ atacante2.tablero_disparos = [atacante.tablero_disparos EXCEPT ![c] = "X"]
          /\ \E i \in BarcosEn(defensor.barcos, c) :
                defensor2.barcos
                  = [defensor.barcos EXCEPT ![i].impactos = defensor.barcos[i].impactos + 1]

\* C23: a shot, of the player or of the computer, at a cell of the grid not
\* shot at before is a hit exactly when a ship of the defender not sunk holds
\* the cell; a miss marks the cell MISS on the shooter's target grid and changes
\* no ship; a hit that sinks nothing marks it HIT and adds one to the hit
\* counter of that ship alone; no other cell of a target grid changes.
C23_ResolucionDelDisparo ==
    [][ /\ (DisparoJugadorAceptado /\ respuesta'.celda \in Celdas
              /\ juego_actual.tablero_ia.tablero[respuesta'.celda] \in {"O", "~"})
            => DisparoCorrecto(respuesta'.celda, respuesta'.resultado.tipo,
                               juego_actual.tablero_ia, juego_actual.tablero_jugador,
                               juego_actual'.tablero_ia, juego_actual'.tablero_jugador)
        /\ (DisparoIAAceptado /\ respuesta'.celda \in Celdas
              /\ juego_actual.tablero_jugador.tablero[respuesta'.celda] \in {"O", "~"})
            => DisparoCorrecto(respuesta'.celda, respuesta'.resultado.tipo,
                               juego_actual.tablero_jugador, juego_actual.tablero_ia,
                               juego_actual'.tablero_jugador, juego_actual'.tablero_ia)
      ]_vars

\* The computer has just hit a ship without sinking it, in a game in which the
\* player has hit and missed.
C23_Testigo ==
    /\ EnJuego
    /\ respuesta.op = "turno_ia" /\ respuesta.resultado.tipo = "TOCADO"
    /\ respuesta.celda \in Celdas
    /\ juego_actual.tablero_ia.tablero_disparos[respuesta.celda] = "X"
    /\ \E c \in Celdas : juego_actual.tablero_jugador.tablero_disparos[c] = "X"
    /\ \E c \in Celdas : juego_actual.tablero_jugador.tablero_disparos[c] = "F"


\* C24: a shot of the computer at a cell not shot at before leaves the same
\* mark on the player's owner grid as on the computer's target grid: MISS after
\* a miss, HIT after a hit that sinks nothing, and SUNK at every cell of the
\* ship after a shot that sinks it.
C24_MarcasReflejadas ==
    [][ (DisparoIAAceptado /\ respuesta'.celda \in Celdas
           /\ juego_actual.tablero_jugador.tablero[respuesta'.celda] \in {"O", "~"})
          => LET c == respuesta'.celda
                 tipo == respuesta'.resultado.tipo
                 tablero == juego_actual'.tablero_jugador.tablero
             IN  /\ tipo = "AGUA" => tablero[c] = "F"
                 /\ tipo = "TOCADO" => tablero[c] = "X"
                 /\ tipo = "HUNDIDO" =>
                       \A i \in DOMAIN juego_actual'.tablero_jugador.barcos :
                           juego_actual'.tablero_jugador.barcos[i].nombre
                               = respuesta'.resultado.nombre
                             => \A d \in Elementos(juego_actual'.tablero_jugador.barcos[i].posiciones) :
                                   tablero[d] = "H"
      ]_vars


\* C25: in a game in PLAYING whose computer target grid shows no HIT cell, the
\* heuristic returns only cells with (row + column) even for as long as one of
\* them is not marked, however many cells are marked.
C25_ParidadMientrasQuede ==
    (EnJuego /\ ImpactosVistos(juego_actual) = {}
       /\ patron_paridad(Celdas \ disparos_previos(juego_actual)) # {})
      => generar_coordenadas_aleatorias(disparos_previos(juego_actual), juego_actual)
           \subseteq patron_paridad(Celdas \ disparos_previos(juego_actual))


\* The changes of a mark: EMPTY to MISS, HIT or SUNK, and HIT to SUNK.
CambioDeMarca == { <<"~", "F">>, <<"~", "X">>, <<"~", "H">>, <<"X", "H">> }

Monotono(antes, despues) ==
    \A c \in Celdas : antes[c] = despues[c] \/ <<antes[c], despues[c]>> \in CambioDeMarca

\* C26: within one game every request leaves each cell of both target grids as
\* it was or changes it from EMPTY to MISS, HIT or SUNK, or from HIT to SUNK.
C26_MarcasMonotonas ==
    [][ (juego_actual # None /\ respuesta'.op # "iniciar_juego")
          => /\ Monotono(juego_actual.tablero_jugador.tablero_disparos,
                         juego_actual'.tablero_jugador.tablero_disparos)
             /\ Monotono(juego_actual.tablero_ia.tablero_disparos,
                         juego_actual'.tablero_ia.tablero_disparos)
      ]_vars


\* The hit counter of every ship of the side is the number of its cells that
\* read "X" on the owner grid, and the ship is sunk exactly when the counter
\* equals its number of cells.
ContadoresExactos(lado) ==
    \A i \in DOMAIN lado.barcos :
        LET barco == lado.barcos[i] IN
        /\ barco.impactos
             = Cardinality({ c \in Elementos(barco.posiciones) \cap Celdas : lado.tablero[c] = "X" })
        /\ 0 <= barco.impactos /\ barco.impactos <= Len(barco.posiciones)
        /\ barco.hundido <=> barco.impactos = Len(barco.posiciones)

\* C27: in every state with a game, for every ship of both fleets, the hit
\* counter equals the number of the ship's cells hit on the owner grid, lies
\* between 0 and the ship's length, and the ship is sunk exactly when the
\* counter equals the length.
C27_ContadoresExactos ==
    juego_actual # None =>
        /\ ContadoresExactos(juego_actual.tablero_jugador)
        /\ ContadoresExactos(juego_actual.tablero_ia)

\* Both fleets have a sunk ship, and the player has just repeated a shot.
C27_Testigo ==
    /\ juego_actual # None
    /\ \E i \in DOMAIN juego_actual.tablero_jugador.barcos :
          juego_actual.tablero_jugador.barcos[i].hundido
    /\ \E i \in DOMAIN juego_actual.tablero_ia.barcos :
          juego_actual.tablero_ia.barcos[i].hundido
    /\ respuesta.op = "disparar" /\ respuesta.resultado.tipo = "REPETIDO"


\* The cells of the player's ships that have not been hit.
PorTocar(juego) == Cardinality(Intactas(juego.tablero_jugador.tablero))

\* After the shot the turn is the player's, or the game is over, or one cell
\* less of the player's ships is left to hit and at least one is left.
AvanzaElTurno(antes, despues) ==
    \/ despues.turno_jugador
    \/ despues.game_over
    \/ (PorTocar(despues) = PorTocar(antes) - 1 /\ PorTocar(despues) >= 1)

\* C28: in PLAYING on the computer's turn a cell of the player's ships is left
\* to hit, and every shot of the computer, whatever the oracle answers, passes
\* the turn to the player, ends the game, or hits one more cell and leaves one
\* to hit; so the computer fires at most as many shots in a row as cells are
\* left to hit.
C28_RachaAcotada ==
    /\ [] ( (EnJuego /\ ~juego_actual.turno_jugador) =>
              /\ PorTocar(juego_actual) >= 1
              /\ \A o \in RespuestasOraculoHeuristica :
                    \A s \in turno_ia(juego_actual, historial_disparos_ia, o) :
                        /\ s.respuesta.codigo = 200
                        /\ AvanzaElTurno(juego_actual, s.juego) )
    /\ [][ DisparoIAAceptado => AvanzaElTurno(juego_actual, juego_actual') ]_vars

\* The computer has hit and keeps the turn with one cell left to hit.
C28_Testigo ==
    /\ EnJuego /\ ~juego_actual.turno_jugador
    /\ respuesta.op = "turno_ia" /\ respuesta.resultado.tipo \in {"TOCADO", "HUNDIDO"}
    /\ PorTocar(juego_actual) = 1

=============================================================================
